---- MODULE Spec2Model ----
(***************************************************************************)
(* Model of the Books-to-Scrape robot driver (robot_driver.py), the Flask  *)
(* JSON endpoints in front of it (app.py) and the MCP agent helpers        *)
(* (mcp_agent.py).                                                         *)
(*                                                                         *)
(* Strings are sequences of code points, so that str.lower(), str.strip()  *)
(* and the ordering of strings are computed and not assumed.               *)
(***************************************************************************)
EXTENDS Integers, Sequences, FiniteSets, TLC

VARIABLES
    rpc,        \* resolver harness: "input" before the call, "done" after it
    rquery,     \* resolver harness: the query handed to _closest_category
    rcats,      \* resolver harness: the category list handed to it
    rres,       \* resolver harness: what _closest_category returned
    entry,      \* which entry point was invoked: "driver" or "search_json"
    product,    \* search_product's product argument, or the "product" of the JSON body
    body_category, \* the "category" of the JSON body of /search-json
    limit_in,   \* the limit the caller gave: <<>> (None / absent) or <<n>>
    pc,         \* position of the invocation in search_product / search_json
    browser,    \* the invocation's browser: "none", "open", "closed", "stopped"
    query,      \* search_product: query
    limit,      \* search_product: limit after lines 142-148, <<>> is None
    req_limit,  \* search_json: limit after lines 411-415
    categories, \* search_product: categories
    resolved,   \* search_product: resolved
    cards,      \* the .product_pod cards of the page the browser shows
    next_link,  \* the li.next control of that page: "none", "nohref", "link"
    items,      \* _extract_items_from_category: items
    pages_seen, \* _extract_items_from_category: pages_seen (0 before the loop)
    data,       \* what search_product returned (or that it raised)
    ret,        \* the return statement by which search_product (or the fetch of
                \* categories_json) ended, "none" before
    loop_exit,  \* why _extract_items_from_category stopped, "none" before
    auth,       \* the request's session and API key, and the configured key
    cats,       \* categories_json: cats
    out,        \* the HTTP response of the endpoint
    invocation, \* the number of the invocation under way, counted from 1
    prior,      \* the browser sessions launched before this invocation began
    launched,   \* the browser sessions launched so far, numbered 1..launched
    live,       \* the numbers of the sessions launched and not yet torn down
    session,    \* the number of the session this invocation uses, 0 for none
    raw,        \* payload harness: what the upstream call returned (or that it raised)
    requested,  \* payload harness: the category the request asked for
    slimit,     \* payload harness: the request's limit after lines 411-415
    normalized, \* payload harness: what _normalize_search_payload returned
    served,     \* payload harness: the response of /search-json
    resp,       \* payload harness: resp in mcp_agent.search_product
    agent_out,  \* payload harness: what mcp_agent.search_product returned
    gentry,     \* goal run: "run_ai_goal" called directly, or "api_run" (POST /api/run)
    gpc,        \* goal run: position in api_run / run_ai_goal
    api_auth,   \* api_run: the request's session and API key, and the configured key
    api_body,   \* api_run: what request.get_json(silent=True) gave (None when not JSON)
    goal,       \* run_ai_goal: goal
    steps,      \* run_ai_goal: steps, <<>> is None
    MAX_STEPS,  \* mcp_agent: MAX_STEPS as configured by ROBOT_MAX_STEPS
    DEFAULT_RETRIES, \* mcp_agent: DEFAULT_RETRIES as configured by ROBOT_RETRIES
    max_steps,  \* run_ai_goal: max_steps
    g,          \* run_ai_goal: g
    intent,     \* run_ai_goal: intent
    goal_query, \* run_ai_goal: query
    taken_steps,\* run_ai_goal: taken_steps
    final,      \* run_ai_goal: final
    searches,   \* calls of mcp_agent.search_product made by the goal run
    posts,      \* HTTP requests sent to /search-json by the goal run
    navs,       \* page.goto calls made by api_run itself
    run_result, \* api_run: result, what run_ai_goal returned (or that it raised)
    api_out,    \* api_run: the HTTP response
    http_retries, \* _http: retries
    attempt,    \* _http: attempt, 0 before the loop
    http_pc,    \* _http: where the call is
    last_exc,   \* _http: last_exc
    tried,      \* _http: how each attempt made so far ended
    http_resp,  \* _http: resp, once requests.request has answered
    http_ret,   \* _http: the tuple returned
    users,      \* the rows of the users table
    method,     \* /login: request.method
    form_username, \* /login: request.form["username"]
    form_password, \* /login: request.form["password"]
    db_failed,  \* /login: the query of get_user raised
    session_before, \* session["user"] when the request came
    login_session,  \* session["user"]
    login_pc,   \* /login: where the request is
    login_out   \* /login: the HTTP response

resolveVars == <<rpc, rquery, rcats, rres>>
driverVars == <<entry, product, body_category, limit_in, pc, browser, query, limit, req_limit,
                categories, resolved, cards, next_link, items, pages_seen, data,
                ret, loop_exit, auth, cats, out,
                invocation, prior, launched, live, session>>
sessionVars == <<launched, live, session>>

shapeVars == <<raw, requested, slimit, normalized, served, resp, agent_out>>
routerVars == <<gentry, gpc, api_auth, api_body, goal, steps, MAX_STEPS, DEFAULT_RETRIES,
              max_steps, g, intent, goal_query, taken_steps, final, searches, posts,
              navs, run_result, api_out>>
httpVars == <<http_retries, attempt, http_pc, last_exc, tried, http_resp, http_ret>>
loginVars == <<users, method, form_username, form_password, db_failed, session_before,
               login_session, login_pc, login_out>>
goalVars == <<routerVars, httpVars, loginVars>>

vars == <<resolveVars, driverVars, shapeVars, goalVars>>

-----------------------------------------------------------------------------
(* Bounds of the model *)

MaxNameLen == 2      \* longest generated category name
MaxQueryLen == 3     \* longest generated query
MaxCats == 2         \* longest generated category list
MaxCards == 2        \* most cards on one category page
MaxSitePages == 2    \* most pages of one category
MaxLimit == 2        \* largest limit a caller gives
MaxInvocations == 2  \* most invocations one after the other

-----------------------------------------------------------------------------
(* Strings *)

Min(x, y) == IF x <= y THEN x ELSE y
Max(x, y) == IF x >= y THEN x ELSE y

\* str.lower() on ASCII: 'A'..'Z' (65..90) map to 'a'..'z'
Lower(s) == [i \in 1..Len(s) |-> IF s[i] \in 65..90 THEN s[i] + 32 ELSE s[i]]

\* the ASCII characters str.strip() removes
IsSpace(c) == c \in {9, 10, 11, 12, 13, 28, 29, 30, 31, 32}

\* str.strip(): drop leading and trailing whitespace
strip(s) ==
    LET keep == {i \in 1..Len(s) : ~IsSpace(s[i])}
    IN IF keep = {} THEN <<>>
       ELSE LET lo == CHOOSE i \in keep : \A k \in 1..(i - 1) : IsSpace(s[k])
                hi == CHOOSE i \in keep : \A k \in (i + 1)..Len(s) : IsSpace(s[k])
            IN [i \in 1..(hi - lo + 1) |-> s[lo + i - 1]]

\* Python's ordering of two strings: by code point, a proper prefix is smaller
StrLess(x, y) ==
    \E i \in 1..(Min(Len(x), Len(y)) + 1) :
        /\ \A d \in 1..(i - 1) : x[d] = y[d]
        /\ \/ i > Len(x) /\ i <= Len(y)
           \/ i <= Len(x) /\ i <= Len(y) /\ x[i] < y[i]

\* all strings over chars of length lo..hi
StringsOver(chars, lo, hi) == UNION {[1..n -> chars] : n \in lo..hi}

\* Sum of f[x] over a finite set
RECURSIVE SumOver(_, _)
SumOver(f, S) ==
    IF S = {} THEN 0
    ELSE LET x == CHOOSE y \in S : TRUE
         IN f[x] + SumOver(f, S \ {x})

-----------------------------------------------------------------------------
(* Python values that cross a function or HTTP boundary, by type tag.  A     *)
(* dict is a function from its keys to values, so that a missing key, a key  *)
(* that is None and a key of the wrong type are three different things.      *)

PyNone == [t |-> "none"]
PyStr(s) == [t |-> "str", v |-> s]
PyInt(n) == [t |-> "int", v |-> n]
PyList(l) == [t |-> "list", v |-> l]
PyDict(d) == [t |-> "dict", v |-> d]
PyBool(b) == [t |-> "bool", v |-> b]
\* not a value: the call raised instead of returning
PyRaised == [t |-> "raised"]

EmptyDict == PyDict(<<>>)
EmptyList == PyList(<<>>)

\* isinstance(x, dict), isinstance(x, list), isinstance(x, str)
IsDict(x) == x.t = "dict"
IsList(x) == x.t = "list"
IsStr(x) == x.t = "str"

\* d.get(k, default) and d.get(k) on a dict d
Get(d, k, default) == IF k \in DOMAIN d.v THEN d.v[k] ELSE default
GetOrNone(d, k) == Get(d, k, PyNone)

\* bool(x)
Truthy(x) ==
    CASE x.t = "none" -> FALSE
      [] x.t = "str"  -> Len(x.v) > 0
      [] x.t = "int"  -> x.v # 0
      [] x.t = "list" -> Len(x.v) > 0
      [] x.t = "dict" -> DOMAIN x.v # {}
      [] x.t = "bool" -> x.v
      [] OTHER        -> TRUE

\* l[:n] for n >= 0
Prefix(l, n) == [i \in 1..Min(n, Len(l)) |-> l[i]]

\* a | b on dicts: the keys of both, b's value where both have one
Merge(a, b) ==
    PyDict([k \in DOMAIN a.v \cup DOMAIN b.v |-> IF k \in DOMAIN b.v THEN b.v[k] ELSE a.v[k]])

\* the function f restricted to the keys K
Restrict(f, K) == [k \in K |-> f[k]]

\* Optional[int]: <<>> is None, <<n>> is n
None == <<>>
Some(n) == <<n>>

-----------------------------------------------------------------------------
(* difflib.SequenceMatcher, as get_close_matches uses it: no junk function, *)
(* and autojunk only acts on sequences of 200 elements or more.             *)

\* a[i..i+k-1] = b[j..j+k-1]
BlockMatches(a, b, i, j, k) == \A d \in 0..(k - 1) : a[i + d] = b[j + d]

\* SequenceMatcher.find_longest_match on a[alo..ahi], b[blo..bhi] (1-based,
\* inclusive): the longest common block; of those the one starting earliest
\* in a; of those the one starting earliest in b.  <<alo, blo, 0>> if none.
find_longest_match(a, b, alo, ahi, blo, bhi) ==
    LET blocks == {t \in (alo..ahi) \X (blo..bhi) \X (1..Min(ahi - alo + 1, bhi - blo + 1)) :
                      /\ t[1] + t[3] - 1 <= ahi
                      /\ t[2] + t[3] - 1 <= bhi
                      /\ BlockMatches(a, b, t[1], t[2], t[3])}
    IN IF blocks = {} THEN <<alo, blo, 0>>
       ELSE CHOOSE t \in blocks :
               \A u \in blocks :
                  \/ u[3] < t[3]
                  \/ u[3] = t[3] /\ t[1] < u[1]
                  \/ u[3] = t[3] /\ t[1] = u[1] /\ t[2] <= u[2]

\* SequenceMatcher.get_matching_blocks: total size of the blocks found by
\* splitting around the longest match and recursing left and right
RECURSIVE matching_blocks_size(_, _, _, _, _, _)
matching_blocks_size(a, b, alo, ahi, blo, bhi) ==
    IF alo > ahi \/ blo > bhi THEN 0
    ELSE LET m == find_longest_match(a, b, alo, ahi, blo, bhi)
             i == m[1]
             j == m[2]
             k == m[3]
         IN IF k = 0 THEN 0
            ELSE k + matching_blocks_size(a, b, alo, i - 1, blo, j - 1)
                   + matching_blocks_size(a, b, i + k, ahi, j + k, bhi)

\* _calculate_ratio: 2.0 * matches / length, 1.0 when length is 0; kept as the
\* fraction <<numerator, denominator>>
calculate_ratio(matches, length) ==
    IF length = 0 THEN <<1, 1>> ELSE <<2 * matches, length>>

\* SequenceMatcher.ratio() with seq1 = a, seq2 = b
ratio(a, b) ==
    calculate_ratio(matching_blocks_size(a, b, 1, Len(a), 1, Len(b)), Len(a) + Len(b))

\* SequenceMatcher.quick_ratio(): size of the multiset intersection
quick_ratio(a, b) ==
    LET chars == {a[i] : i \in 1..Len(a)}
        cnt(s, c) == Cardinality({i \in 1..Len(s) : s[i] = c})
        common == [c \in chars |-> Min(cnt(a, c), cnt(b, c))]
    IN calculate_ratio(SumOver(common, chars), Len(a) + Len(b))

\* SequenceMatcher.real_quick_ratio(): bound from the lengths alone
real_quick_ratio(a, b) ==
    calculate_ratio(Min(Len(a), Len(b)), Len(a) + Len(b))

\* the cutoff 0.65 of _closest_category as the fraction 65 / 100
CUTOFF_NUM == 65
CUTOFF_DEN == 100

\* r >= cutoff, r a fraction with positive denominator
AtLeastCutoff(r) == r[1] * CUTOFF_DEN >= CUTOFF_NUM * r[2]

\* fraction r < fraction s
FracLess(r, s) == r[1] * s[2] < s[1] * r[2]
FracEq(r, s) == r[1] * s[2] = s[1] * r[2]

\* mutant of close_candidates: the cutoff is 0.72 instead of 0.65
close_candidates_cutoff72(word, possibilities) ==
    {<<ratio(possibilities[i], word), possibilities[i]>> :
        i \in {n \in 1..Len(possibilities) :
                  LET r == ratio(possibilities[n], word) IN r[1] * 100 >= 72 * r[2]}}

\* the candidates get_close_matches keeps: (score, x) for every possibility
\* that passes the three ratio tests
close_candidates(word, possibilities) ==
    {<<ratio(possibilities[i], word), possibilities[i]>> :
        i \in {n \in 1..Len(possibilities) :
                  /\ AtLeastCutoff(real_quick_ratio(possibilities[n], word))
                  /\ AtLeastCutoff(quick_ratio(possibilities[n], word))
                  /\ AtLeastCutoff(ratio(possibilities[n], word))}}

\* mutant of get_close_matches: the first possibility that passes the cutoff
\* is taken instead of the best one
get_close_matches_first(word, possibilities) ==
    LET ok == {n \in 1..Len(possibilities) : AtLeastCutoff(ratio(possibilities[n], word))}
    IN IF ok = {} THEN <<>>
       ELSE <<possibilities[CHOOSE n \in ok : \A k \in ok : n <= k]>>

\* difflib.get_close_matches(word, possibilities, n=1, cutoff=0.65):
\* heapq.nlargest(1, result) is max(result) over the (score, x) tuples, that
\* is the best score and, among equal scores, the largest string
get_close_matches(word, possibilities) ==
    LET result == close_candidates(word, possibilities)
    IN IF result = {} THEN <<>>
       ELSE LET best == CHOOSE t \in result :
                           \A u \in result :
                              \/ FracLess(u[1], t[1])
                              \/ FracEq(u[1], t[1]) /\ (u[2] = t[2] \/ StrLess(u[2], t[2]))
            IN <<best[2]>>

-----------------------------------------------------------------------------
(* robot_driver.py: category resolution *)

\* Optional[Tuple[str, str]]
NoCategory == [some |-> FALSE, name |-> <<>>, url |-> 0]
SomeCategory(c) == [some |-> TRUE, name |-> c.name, url |-> c.url]

\* _closest_category(query, categories), written here with q and cs
closest_category(q, cs) ==
    LET names == [i \in 1..Len(cs) |-> cs[i].name]
    IN IF q = <<>> THEN NoCategory
       ELSE LET matches == get_close_matches(Lower(q),
                                [i \in 1..Len(names) |-> Lower(names[i])])
            IN IF matches = <<>> THEN NoCategory
               ELSE LET target_lower == matches[1]
                        hits == {i \in 1..Len(cs) : Lower(cs[i].name) = target_lower}
                    IN IF hits = {} THEN NoCategory
                       ELSE SomeCategory(cs[CHOOSE i \in hits : \A h \in hits : i <= h])

-----------------------------------------------------------------------------
(* Each specification below drives one group of variables and leaves the    *)
(* other groups at rest.                                                    *)

NoResponse == [code |-> 0, body |-> PyNone]

\* a request with no session and no X-API-Key, and no API_KEY configured
NoAuth == [session |-> FALSE, required |-> None, provided |-> None]

ResolveAtRest ==
    /\ rpc = "rest"
    /\ rquery = <<>>
    /\ rcats = <<>>
    /\ rres = NoCategory

DriverAtRest ==
    /\ entry = "none"
    /\ product = <<>>
    /\ body_category = <<>>
    /\ limit_in = None
    /\ pc = "rest"
    /\ browser = "none"
    /\ query = <<>>
    /\ limit = None
    /\ req_limit = 0
    /\ categories = <<>>
    /\ resolved = NoCategory
    /\ cards = <<>>
    /\ next_link = "none"
    /\ items = <<>>
    /\ pages_seen = 0
    /\ data = PyNone
    /\ ret = "none"
    /\ loop_exit = "none"
    /\ auth = NoAuth
    /\ cats = <<>>
    /\ out = NoResponse
    /\ invocation = 0
    /\ prior = 0
    /\ launched = 0
    /\ live = {}
    /\ session = 0

\* a slot of the payload harness that no call has filled yet
Unset == [t |-> "unset"]

ShapesAtRest ==
    /\ raw = PyNone
    /\ requested = <<>>
    /\ slimit = 0
    /\ normalized = Unset
    /\ served = NoResponse
    /\ resp = Unset
    /\ agent_out = Unset

HttpAtRest ==
    /\ http_retries = 0
    /\ attempt = 0
    /\ http_pc = "rest"
    /\ last_exc = None
    /\ tried = <<>>
    /\ http_resp = Unset
    /\ http_ret = Unset

RouterAtRest ==
    /\ gentry = "none"
    /\ gpc = "rest"
    /\ api_auth = NoAuth
    /\ api_body = PyNone
    /\ goal = PyNone
    /\ steps = None
    /\ MAX_STEPS = 0
    /\ DEFAULT_RETRIES = 0
    /\ max_steps = 0
    /\ g = Unset
    /\ intent = <<>>
    /\ goal_query = Unset
    /\ taken_steps = <<>>
    /\ final = Unset
    /\ searches = 0
    /\ posts = 0
    /\ navs = 0
    /\ run_result = Unset
    /\ api_out = NoResponse

LoginAtRest ==
    /\ users = {}
    /\ method = "none"
    /\ form_username = None
    /\ form_password = None
    /\ db_failed = FALSE
    /\ session_before = None
    /\ login_session = None
    /\ login_pc = "rest"
    /\ login_out = NoResponse

GoalAtRest == RouterAtRest /\ HttpAtRest /\ LoginAtRest

-----------------------------------------------------------------------------
(* Inputs of the resolver harness *)

\* names are drawn over 'A' and 'b', queries over 'a' and 'B': a query equals
\* a name only up to case
NameChars == {65, 98}
QueryChars == {97, 66}

GenNames == StringsOver(NameChars, 1, MaxNameLen)
GenQueries == StringsOver(QueryChars, 0, MaxQueryLen)

\* category lists as _get_categories builds them: names are non-empty, the
\* url of an entry is written as its position on the page
CategoryList(names) == [i \in 1..Len(names) |-> [name |-> names[i], url |-> i]]
GenTaxonomies == {CategoryList(ns) : ns \in UNION {[1..n -> GenNames] : n \in 0..MaxCats}}

\* "Travel", "Mystery", "Food and Drink"
Travel == <<84, 114, 97, 118, 101, 108>>
Mystery == <<77, 121, 115, 116, 101, 114, 121>>
FoodAndDrink == <<70, 111, 111, 100, 32, 97, 110, 100, 32, 68, 114, 105, 110, 107>>
ScenarioTaxonomy == CategoryList(<<Travel, Mystery, FoodAndDrink>>)

\* "Ab", "AB", "ab": names that differ only by case
CaseTaxonomy == CategoryList(<<<<65, 98>>, <<65, 66>>, <<97, 98>>>>)

\* "trav", "zzz-nonsense", "TRAVEL", " Travel ", "food", "Mistery", " aB", "ab"
QueryTrav == <<116, 114, 97, 118>>
QueryNonsense == <<122, 122, 122, 45, 110, 111, 110, 115, 101, 110, 115, 101>>
QueryTRAVEL == <<84, 82, 65, 86, 69, 76>>
QueryTravelPadded == <<32, 84, 114, 97, 118, 101, 108, 32>>
QueryFood == <<102, 111, 111, 100>>
QueryMistery == <<77, 105, 115, 116, 101, 114, 121>>
QueryPaddedAb == <<32, 97, 66>>
Queryab == <<97, 98>>
ScenarioQueries == {QueryTrav, QueryNonsense, QueryTRAVEL, QueryTravelPadded,
                    QueryFood, QueryMistery, QueryPaddedAb, Queryab}

-----------------------------------------------------------------------------
(* Resolver harness: search_product's resolution of a drawn product against *)
(* a drawn category list: query = (product or "").strip(), then             *)
(* _closest_category(query, categories)                                     *)

ResolveInit ==
    /\ rpc = "input"
    /\ \/ rquery \in GenQueries /\ rcats \in GenTaxonomies
       \/ rquery \in GenQueries \cup ScenarioQueries /\ rcats \in {ScenarioTaxonomy, CaseTaxonomy}
    /\ rres = NoCategory
    /\ DriverAtRest
    /\ ShapesAtRest
    /\ GoalAtRest

Resolve ==
    /\ rpc = "input"
    /\ rres' = closest_category(strip(rquery), rcats)
    /\ rpc' = "done"
    /\ UNCHANGED <<rquery, rcats>>
    /\ UNCHANGED <<driverVars, shapeVars, goalVars>>

ResolveNext == Resolve

SpecResolve == ResolveInit /\ [][ResolveNext]_vars

-----------------------------------------------------------------------------
(* Category resolution: claims *)

\* the entries of rcats whose name equals the trimmed query up to case
ExactHits == {i \in 1..Len(rcats) : Lower(rcats[i].name) = Lower(strip(rquery))}

\* q occurs in s as a contiguous block
Contains(s, q) == \E i \in 1..(Len(s) - Len(q) + 1) : BlockMatches(s, q, i, 1, Len(q))

\* the entries of rcats whose name contains the trimmed query up to case
SubstringHits == {i \in 1..Len(rcats) : Contains(Lower(rcats[i].name), Lower(strip(rquery)))}

FirstOf(S) == CHOOSE i \in S : \A k \in S : i <= k

\* the similarity ratio of entry i to the trimmed query, as difflib scores it
ScoreOf(i) == ratio(Lower(rcats[i].name), Lower(strip(rquery)))

\* C1: when the category list holds an entry whose name equals the trimmed
\* query up to case, resolution returns such an entry (the first one in list
\* order), whatever the similarity of the other entries.
C1_ExactBeatsFuzzy ==
    (rpc = "done" /\ ExactHits # {}) =>
        /\ rres.some
        /\ rres = SomeCategory(rcats[FirstOf(ExactHits)])

\* C1 witness: an exact entry was returned although an entry before it in the
\* list is a fuzzy candidate (ratio >= cutoff) that is not exact.
C1_Witness ==
    /\ rpc = "done"
    /\ ExactHits # {}
    /\ rres.some
    /\ rres.url \in ExactHits
    /\ \E i \in 1..Len(rcats) :
          i < rres.url /\ i \notin ExactHits /\ AtLeastCutoff(ScoreOf(i))

\* C2 as stated: a query that is no exact name but is contained in a name
\* resolves to the first containing name in list order.
C2_SubstringFirst ==
    (rpc = "done" /\ strip(rquery) # <<>> /\ ExactHits = {} /\ SubstringHits # {}) =>
        /\ rres.some
        /\ rres = SomeCategory(rcats[FirstOf(SubstringHits)])

\* C2 amended: a query that is no exact name but is contained in a name
\* resolves to a category if and only if some name has similarity ratio
\* >= 0.65 to it, and then to a name of the best ratio in the list;
\* "trav" against Travel, Mystery, Food and Drink resolves to Travel.
C2_SubstringNeedsRatio ==
    (rpc = "done" /\ strip(rquery) # <<>> /\ ExactHits = {} /\ SubstringHits # {}) =>
        /\ rres.some <=> \E i \in 1..Len(rcats) : AtLeastCutoff(ScoreOf(i))
        /\ rres.some =>
              /\ rres.url \in 1..Len(rcats)
              /\ rres.name = rcats[rres.url].name
              /\ \A i \in 1..Len(rcats) : ~FracLess(ScoreOf(rres.url), ScoreOf(i))
        /\ (rquery = QueryTrav /\ rcats = ScenarioTaxonomy) => (rres.some /\ rres.name = Travel)

\* C2 witness: "trav" resolved to Travel in the three-entry scenario.
C2_Witness ==
    /\ rpc = "done"
    /\ rquery = QueryTrav
    /\ rcats = ScenarioTaxonomy
    /\ rres = SomeCategory(ScenarioTaxonomy[1])

\* the query is not empty, is no name and is contained in no name, up to case
FuzzyOnly ==
    /\ rpc = "done"
    /\ strip(rquery) # <<>>
    /\ ExactHits = {}
    /\ SubstringHits = {}

\* C22: for a query that is neither a name nor part of a name, resolution
\* returns a category exactly when some name scores at least the cutoff 0.65,
\* and then the one of the best score (of equally scored names the largest
\* in lower case); otherwise it returns no match
C22_FuzzyThreshold ==
    FuzzyOnly =>
        /\ rres.some <=> \E i \in 1..Len(rcats) : AtLeastCutoff(ScoreOf(i))
        /\ rres.some =>
              /\ rres.url \in 1..Len(rcats)
              /\ rres.name = rcats[rres.url].name
              /\ AtLeastCutoff(ScoreOf(rres.url))
              /\ \A i \in 1..Len(rcats) :
                    \/ FracLess(ScoreOf(i), ScoreOf(rres.url))
                    \/ /\ FracEq(ScoreOf(i), ScoreOf(rres.url))
                       /\ \/ Lower(rcats[i].name) = Lower(rres.name)
                          \/ StrLess(Lower(rcats[i].name), Lower(rres.name))

\* C22 witness: of two names that are neither equal to the query nor contain
\* it, one scored below the cutoff and the other, at or above it, was returned
C22_Witness ==
    /\ FuzzyOnly
    /\ rres.some
    /\ AtLeastCutoff(ScoreOf(rres.url))
    /\ \E i \in 1..Len(rcats) : ~AtLeastCutoff(ScoreOf(i))

-----------------------------------------------------------------------------
(* robot_driver.py: reading the site *)

PAGINATION_MAX_PAGES == 50
AGENT_NAME == "BroncoMCP/1.0"

\* the elements of s at the positions K, in order
SubSeqAt(s, K) ==
    [n \in 1..Cardinality(K) |-> s[CHOOSE i \in K : Cardinality({k \in K : k <= i}) = n]]

\* _clean_text(s): re.sub(r"\s+", " ", s or "").strip()
clean_text(s) ==
    LET firstOfRun == {i \in 1..Len(s) : ~IsSpace(s[i]) \/ i = 1 \/ ~IsSpace(s[i - 1])}
        collapsed == SubSeqAt([i \in 1..Len(s) |-> IF IsSpace(s[i]) THEN 32 ELSE s[i]], firstOfRun)
    IN strip(collapsed)

\* _get_categories(page): one (name, url) per sidebar anchor whose cleaned
\* text is not empty; an anchor's href is written as its position
get_categories(anchors) ==
    LET named == {i \in 1..Len(anchors) : clean_text(anchors[i]) # <<>>}
    IN SubSeqAt([i \in 1..Len(anchors) |-> [name |-> clean_text(anchors[i]), url |-> i]], named)

\* the price text every card shows ("£1")
PriceText == <<163, 49>>

Item(title) == PyDict([title |-> PyStr(title), price |-> PyStr(PriceText)])

\* scrape_current_page() from card i on: <<items, True/False>>; True as soon
\* as a limit is set and len(items) >= limit after a card
\* mutant of scrape_from: the limit is looked at once the whole page is read
RECURSIVE scrape_from_whole_page(_, _, _, _)
scrape_from_whole_page(its, cs, lim, i) ==
    IF i > Len(cs) THEN <<its, lim # None /\ Len(its) >= lim[1]>>
    ELSE LET title == clean_text(cs[i])
         IN scrape_from_whole_page(IF title # <<>> THEN Append(its, Item(title)) ELSE its,
                                   cs, lim, i + 1)

RECURSIVE scrape_from(_, _, _, _)
scrape_from(its, cs, lim, i) ==
    IF i > Len(cs) THEN <<its, FALSE>>
    ELSE LET title == clean_text(cs[i])
             its2 == IF title # <<>> THEN Append(its, Item(title)) ELSE its
         IN IF lim # None /\ Len(its2) >= lim[1] THEN <<its2, TRUE>>
            ELSE scrape_from(its2, cs, lim, i + 1)

scrape_current_page(its, cs, lim) == scrape_from(its, cs, lim, 1)

\* lines 142-148: limit = int(limit), None when it is <= 0
normalize_limit(lim) == IF lim # None /\ lim[1] <= 0 THEN None ELSE lim

NamesOf(cs) == PyList([i \in 1..Len(cs) |-> PyStr(cs[i].name)])

\* the dict every return of search_product builds
DriverResult(status, category, its, meta) ==
    PyDict([agent |-> PyStr(AGENT_NAME), status |-> PyStr(status),
            category |-> PyStr(category), items |-> PyList(its), meta |-> PyDict(meta)])

RootTimeoutResult(q) ==
    DriverResult("error", q, <<>>, [note |-> PyStr("Timeout navigating to site root")])
CategoriesTimeoutResult(q) ==
    DriverResult("error", q, <<>>, [note |-> PyStr("Could not load categories")])
\* mutant of NoQueryResult: the empty query is answered like a query that
\* matched nothing
NoQueryResult_as_no_match(cs) ==
    DriverResult("success", <<>>, <<>>,
        [categories |-> NamesOf(cs), count |-> PyInt(0), category_url |-> PyNone,
         note |-> PyStr("No close category match; choose from 'categories'")])
NoQueryResult(cs) ==
    DriverResult("success", <<>>, <<>>,
        [categories |-> NamesOf(cs), count |-> PyInt(0), category_url |-> PyNone,
         note |-> PyStr("No query provided; listing categories")])
\* mutant of NoMatchResult: a query that matched nothing is an error
NoMatchResult_error(q, cs) ==
    DriverResult("error", q, <<>>,
        [categories |-> NamesOf(cs), count |-> PyInt(0), category_url |-> PyNone,
         note |-> PyStr("No close category match; choose from 'categories'")])
NoMatchResult(q, cs) ==
    DriverResult("success", q, <<>>,
        [categories |-> NamesOf(cs), count |-> PyInt(0), category_url |-> PyNone,
         note |-> PyStr("No close category match; choose from 'categories'")])
\* mutant of CategoryTimeoutResult: the timeout is reported as a success
CategoryTimeoutResult_success(r) ==
    DriverResult("success", r.name, <<>>,
        [count |-> PyInt(0), category_url |-> PyInt(r.url),
         note |-> PyStr("Timeout navigating category page")])
CategoryTimeoutResult(r) ==
    DriverResult("error", r.name, <<>>,
        [count |-> PyInt(0), category_url |-> PyInt(r.url),
         note |-> PyStr("Timeout navigating category page")])
SuccessResult(r, its) ==
    DriverResult("success", r.name, its,
        [count |-> PyInt(Len(its)), category_url |-> PyInt(r.url)])

-----------------------------------------------------------------------------
(* app.py: /search-json *)

Response(code, body) == [code |-> code, body |-> body]

\* lines 417-423
MissingProductResponse ==
    Response(400, PyDict([agent |-> PyStr(AGENT_NAME), status |-> PyStr("error"),
        message |-> PyStr("Missing 'product' or 'category' in JSON payload."),
        items |-> EmptyList]))

\* lines 450-460
ScraperFailureResponse(category) ==
    Response(200, PyDict([agent |-> PyStr(AGENT_NAME), status |-> PyStr("error"),
        category |-> PyStr(category), message |-> PyStr("scraper error"),
        items |-> EmptyList,
        meta |-> PyDict([note |-> PyStr("scraper failure; returned empty list")])]))

\* line 410: (body.get("product") or body.get("category") or "").strip();
\* an absent key, None and "" are all falsy
body_text(prod, cat) == strip(IF prod # <<>> THEN prod ELSE cat)

\* lines 411-415: limit = int(body.get("limit", 0)), 0 when that fails
body_limit(lim) == IF lim = None THEN 0 ELSE lim[1]

\* lines 426-460 after search_product(category) came back with d (or raised):
\* d.get(...) on anything but a dict raises inside the try
search_json_respond(d, category, lim) ==
    IF ~IsDict(d) THEN ScraperFailureResponse(category)
    ELSE LET got == Get(d, "items", EmptyList)
             listed == IF IsDict(got) THEN PyList(<<got>>)
                       ELSE IF ~IsList(got) THEN EmptyList
                       ELSE got
             cut == IF lim # 0 /\ lim > 0 THEN PyList(Prefix(listed.v, lim)) ELSE listed
         IN Response(200, PyDict([
                agent |-> Get(d, "agent", PyStr(AGENT_NAME)),
                status |-> Get(d, "status", PyStr("success")),
                category |-> Get(d, "category", PyStr(category)),
                items |-> cut,
                meta |-> Get(d, "meta", EmptyDict)]))

-----------------------------------------------------------------------------
(* app.py: /categories.json *)

\* auth_or_api_key_ok(): a logged-in session, or the configured key presented
auth_or_api_key_ok(a) ==
    \/ a.session
    \/ a.required # None /\ a.provided = a.required

UnauthorizedResponse ==
    Response(401, PyDict([status |-> PyStr("error"), message |-> PyStr("Unauthorized")]))

\* lines 382-388: the trimmed text of every anchor, empty ones dropped
categories_json_cats(anchors) ==
    SubSeqAt([i \in 1..Len(anchors) |-> strip(anchors[i])],
             {i \in 1..Len(anchors) : strip(anchors[i]) # <<>>})

\* line 389
CategoriesResponse(cs) ==
    Response(200, PyDict([status |-> PyStr("success"), count |-> PyInt(Len(cs)),
        categories |-> PyList([i \in 1..Len(cs) |-> PyStr(cs[i])])]))

\* mutant of CategoriesFailureResponse: a failed fetch is answered with a
\* built-in list
CategoriesFailureResponse_fallback == CategoriesResponse(<<Travel, Mystery>>)

\* lines 390-392
CategoriesFailureResponse ==
    Response(500, PyDict([status |-> PyStr("error"), message |-> PyStr("str(e)")]))

-----------------------------------------------------------------------------
(* The site, as one invocation can find it *)

\* "\n Travel \n", "Mystery", "Food  and\nDrink": the sidebar as the browser
\* hands it over, before _clean_text
NavScenario == <<<<10, 32>> \o Travel \o <<32, 10>>, Mystery,
                 <<70, 111, 111, 100, 32, 32, 97, 110, 100, 10, 68, 114, 105, 110, 107>>>>
\* a sidebar with no named anchor at all
NavBlankOnly == <<<<32>>>>
SiteNavs == {NavScenario, NavBlankOnly}

\* card titles as the page gives them: none, "T", " U"
RawTitles == {<<>>, <<84>>, <<32, 85>>}
\* wait_for_selector(".product_pod") returned, so a page has a card
PageCards == UNION {[1..n -> RawTitles] : n \in 1..MaxCards}

\* the li.next control of the page that is page number n of its category
NextLinks(n) == IF n < MaxSitePages THEN {"none", "nohref", "link"} ELSE {"none", "nohref"}

\* "", " ", " Travel ", "zzz-nonsense"
Products == {<<>>, <<32>>, QueryTravelPadded, QueryNonsense}

\* the "category" of a JSON body: absent or empty, or a text
BodyCategories == {<<>>, QueryTRAVEL}

\* the limit argument: None (absent), or an integer
LimitInputs == {None} \cup {Some(n) : n \in 0..MaxLimit}

\* sessions and keys of a request to a gated endpoint
AuthInputs == [session : BOOLEAN, required : {None, Some(1)}, provided : {None, Some(1), Some(2)}]

-----------------------------------------------------------------------------
(* One invocation: search_product called directly, POST /search-json, or    *)
(* GET /categories.json                                                     *)

DriverInit ==
    /\ ResolveAtRest
    /\ ShapesAtRest
    /\ GoalAtRest
    /\ \/ /\ entry = "driver"
          /\ product \in Products
          /\ body_category = <<>>
          /\ limit_in \in LimitInputs
          /\ auth = NoAuth
       \/ /\ entry = "search_json"
          /\ product \in Products
          /\ body_category \in BodyCategories
          /\ limit_in \in LimitInputs
          /\ auth = NoAuth
       \/ /\ entry = "categories_json"
          /\ product = <<>>
          /\ body_category = <<>>
          /\ limit_in = None
          /\ auth \in AuthInputs
    /\ pc = "idle"
    /\ browser = "none"
    /\ query = <<>>
    /\ limit = None
    /\ req_limit = 0
    /\ categories = <<>>
    /\ resolved = NoCategory
    /\ cards = <<>>
    /\ next_link = "none"
    /\ items = <<>>
    /\ pages_seen = 0
    /\ data = PyNone
    /\ ret = "none"
    /\ loop_exit = "none"
    /\ cats = <<>>
    /\ out = NoResponse
    /\ invocation = 1
    /\ prior = 0
    /\ launched = 0
    /\ live = {}
    /\ session = 0

\* p.chromium.launch(): a browser of its own for this invocation
Launch ==
    /\ browser' = "open"
    /\ launched' = launched + 1
    /\ session' = launched + 1
    /\ live' = live \cup {launched + 1}

\* the invocation's browser is gone: by browser.close() ("closed"), or by
\* the exit of the "with sync_playwright()" block ("stopped")
TearDown(how) ==
    /\ browser' = how
    /\ live' = live \ {session}
    /\ UNCHANGED <<launched, session>>

\* a browser launched and torn down within one step of the model
Launched(how) ==
    /\ browser' = how
    /\ launched' = launched + 1
    /\ session' = launched + 1
    /\ live' = live

\* search_product returns d by the return statement at `site`, after
\* browser.close()
Return(site, d) ==
    /\ TearDown("closed")
    /\ data' = d
    /\ ret' = site
    /\ pc' = "returned"

\* mutant of Raise: the exception leaves the browser as it is
Raise_leaving_browser ==
    /\ UNCHANGED <<browser, sessionVars>>
    /\ data' = PyRaised
    /\ ret' = "raised"
    /\ pc' = "returned"

\* an exception other than PWTimeoutError leaves search_product; leaving the
\* "with sync_playwright()" block stops Playwright and its browser
Raise ==
    /\ TearDown("stopped")
    /\ data' = PyRaised
    /\ ret' = "raised"
    /\ pc' = "returned"

\* search_product lines 141-153, called directly
DriverCall ==
    /\ pc = "idle"
    /\ entry = "driver"
    /\ query' = strip(product)
    /\ limit' = normalize_limit(limit_in)
    /\ Launch
    /\ pc' = "goto_root"
    /\ UNCHANGED <<resolveVars, shapeVars, goalVars, invocation, prior>>
    /\ UNCHANGED <<entry, product, body_category, limit_in, req_limit, categories, resolved, cards,
                   next_link, items, pages_seen, data, ret, loop_exit, auth, cats, out>>

\* search_json lines 404-427: an empty category is answered 400 without the
\* driver; otherwise search_product(category) is entered with no limit
SearchJsonReceive ==
    /\ pc = "idle"
    /\ entry = "search_json"
    /\ req_limit' = body_limit(limit_in)
    /\ IF body_text(product, body_category) = <<>>
       THEN /\ out' = MissingProductResponse
            /\ pc' = "responded"
            /\ UNCHANGED <<query, limit, browser, sessionVars>>
       ELSE /\ query' = strip(body_text(product, body_category))
            /\ limit' = None
            /\ Launch
            /\ pc' = "goto_root"
            /\ out' = out
    /\ UNCHANGED <<resolveVars, shapeVars, goalVars, invocation, prior>>
    /\ UNCHANGED <<entry, product, body_category, limit_in, categories, resolved, cards,
                   next_link, items, pages_seen, data, ret, loop_exit, auth, cats>>

\* lines 155-166: page.goto(BOOKS_ROOT)
GotoRoot ==
    /\ pc = "goto_root"
    /\ \/ /\ pc' = "get_categories"
          /\ UNCHANGED <<sessionVars, browser, data, ret>>
       \/ Return("root_timeout", RootTimeoutResult(query))
       \/ Raise
    /\ UNCHANGED <<resolveVars, shapeVars, goalVars, invocation, prior>>
    /\ UNCHANGED <<entry, product, body_category, limit_in, query, limit, req_limit, categories,
                   resolved, cards, next_link, items, pages_seen, loop_exit, auth, cats, out>>

\* lines 168-180: wait for the sidebar and read it
GetCategories ==
    /\ pc = "get_categories"
    /\ \/ /\ \E nav \in SiteNavs : categories' = get_categories(nav)
          /\ pc' = "resolve"
          /\ UNCHANGED <<sessionVars, browser, data, ret>>
       \/ /\ Return("categories_timeout", CategoriesTimeoutResult(query))
          /\ UNCHANGED categories
       \/ /\ Raise
          /\ UNCHANGED categories
    /\ UNCHANGED <<resolveVars, shapeVars, goalVars, invocation, prior>>
    /\ UNCHANGED <<entry, product, body_category, limit_in, query, limit, req_limit,
                   resolved, cards, next_link, items, pages_seen, loop_exit, auth, cats, out>>

\* lines 182-215: no query lists the categories, no match offers them
ResolveCategory ==
    /\ pc = "resolve"
    /\ IF query = <<>>
       THEN /\ Return("no_query", NoQueryResult(categories))
            /\ UNCHANGED resolved
       ELSE LET r == closest_category(query, categories)
            IN IF ~r.some
               THEN /\ Return("no_match", NoMatchResult(query, categories))
                    /\ UNCHANGED resolved
               ELSE /\ resolved' = r
                    /\ pc' = "goto_category"
                    /\ UNCHANGED <<sessionVars, browser, data, ret>>
    /\ UNCHANGED <<resolveVars, shapeVars, goalVars, invocation, prior>>
    /\ UNCHANGED <<entry, product, body_category, limit_in, query, limit, req_limit, categories,
                   cards, next_link, items, pages_seen, loop_exit, auth, cats, out>>

\* lines 217-233: page.goto(resolved_url) and wait for the item grid
GotoCategory ==
    /\ pc = "goto_category"
    /\ \/ /\ cards' \in PageCards
          /\ next_link' \in NextLinks(1)
          /\ pc' = "scrape_first"
          /\ UNCHANGED <<sessionVars, browser, data, ret>>
       \/ /\ Return("category_timeout", CategoryTimeoutResult(resolved))
          /\ UNCHANGED <<cards, next_link>>
       \/ /\ Raise
          /\ UNCHANGED <<cards, next_link>>
    /\ UNCHANGED <<resolveVars, shapeVars, goalVars, invocation, prior>>
    /\ UNCHANGED <<entry, product, body_category, limit_in, query, limit, req_limit, categories,
                   resolved, items, pages_seen, loop_exit, auth, cats, out>>

\* mutant of Extracted: a timeout on a later page fails the whole call
Extracted_timeout_fatal(why, its) ==
    /\ loop_exit' = why
    /\ IF why = "timeout"
       THEN Return("extracted", CategoryTimeoutResult(resolved))
       ELSE Return("extracted", SuccessResult(resolved, its))

\* lines 236-248: _extract_items_from_category came back with its, having
\* stopped for the reason why
Extracted(why, its) ==
    /\ loop_exit' = why
    /\ Return("extracted", SuccessResult(resolved, its))

\* lines 90-110: the first page (and 236-248 when the limit is reached on it)
ScrapeFirst ==
    /\ pc = "scrape_first"
    /\ \/ LET got == scrape_current_page(<<>>, cards, limit)
          IN /\ items' = got[1]
             /\ IF got[2]
                THEN /\ Extracted("limit_first_page", got[1])
                     /\ UNCHANGED pages_seen
                ELSE /\ pages_seen' = 1
                     /\ pc' = "paginate"
                     /\ UNCHANGED <<sessionVars, browser, data, ret, loop_exit>>
       \/ /\ Raise
          /\ UNCHANGED <<items, pages_seen, loop_exit>>
    /\ UNCHANGED <<resolveVars, shapeVars, goalVars, invocation, prior>>
    /\ UNCHANGED <<entry, product, body_category, limit_in, query, limit, req_limit, categories,
                   resolved, cards, next_link, auth, cats, out>>

\* mutant of cap_reached: one page more is let through
cap_reached_late(n) == n > PAGINATION_MAX_PAGES
\* line 112: the negation of the while condition pages_seen < PAGINATION_MAX_PAGES
cap_reached(n) == n >= PAGINATION_MAX_PAGES

\* lines 111-129, one turn of the while loop (and 236-248 when it ends), on a
\* site whose next page is one of `pages` with a next-page control of `links`
PaginateWith(pages, links) ==
    /\ pc = "paginate"
    /\ IF cap_reached(pages_seen)
       THEN /\ Extracted("cap", items)
            /\ UNCHANGED <<cards, next_link, items, pages_seen>>
       ELSE IF next_link # "link"
       THEN /\ Extracted(IF next_link = "none" THEN "no_next" ELSE "no_href", items)
            /\ UNCHANGED <<cards, next_link, items, pages_seen>>
       ELSE \/ /\ Extracted("timeout", items)
               /\ UNCHANGED <<cards, next_link, items, pages_seen>>
            \/ \E cs \in pages, nl \in links :
                 LET got == scrape_current_page(items, cs, limit)
                 IN /\ cards' = cs
                    /\ next_link' = nl
                    /\ pages_seen' = pages_seen + 1
                    /\ items' = got[1]
                    /\ IF got[2]
                       THEN Extracted("limit", got[1])
                       ELSE /\ pc' = "paginate"
                            /\ UNCHANGED <<sessionVars, browser, data, ret, loop_exit>>
            \/ /\ Raise
               /\ UNCHANGED <<cards, next_link, items, pages_seen, loop_exit>>
    /\ UNCHANGED <<resolveVars, shapeVars, goalVars, invocation, prior>>
    /\ UNCHANGED <<entry, product, body_category, limit_in, query, limit, req_limit, categories,
                   resolved, auth, cats, out>>

\* a category of at most MaxSitePages pages
Paginate == PaginateWith(PageCards, NextLinks(pages_seen + 1))

\* search_json lines 427-460, once search_product is back
SearchJsonRespond ==
    /\ pc = "returned"
    /\ entry = "search_json"
    /\ out' = search_json_respond(data, body_text(product, body_category), req_limit)
    /\ pc' = "responded"
    /\ UNCHANGED sessionVars
    /\ UNCHANGED <<resolveVars, shapeVars, goalVars, invocation, prior>>
    /\ UNCHANGED <<entry, product, body_category, limit_in, browser, query, limit, req_limit, categories,
                   resolved, cards, next_link, items, pages_seen, data, ret, loop_exit,
                   auth, cats>>

\* categories_json lines 366-392, the whole handler: refused without session
\* or key; else the sidebar is fetched live, and any exception (a timeout
\* included) is answered 500
CategoriesJson ==
    /\ pc = "idle"
    /\ entry = "categories_json"
    /\ pc' = "responded"
    /\ IF ~auth_or_api_key_ok(auth)
       THEN /\ out' = UnauthorizedResponse
            /\ UNCHANGED <<browser, cats, ret, sessionVars>>
       ELSE \/ \E nav \in SiteNavs :
                 /\ cats' = categories_json_cats(nav)
                 /\ Launched("closed")
                 /\ ret' = "fetched"
                 /\ out' = CategoriesResponse(categories_json_cats(nav))
            \/ /\ Launched("stopped")
               /\ ret' = "fetch_failed"
               /\ out' = CategoriesFailureResponse
               /\ UNCHANGED cats
    /\ UNCHANGED <<resolveVars, shapeVars, goalVars, invocation, prior>>
    /\ UNCHANGED <<entry, product, body_category, limit_in, query, limit, req_limit, categories,
                   resolved, cards, next_link, items, pages_seen, data, loop_exit, auth>>

DriverNext ==
    \/ DriverCall
    \/ SearchJsonReceive
    \/ GotoRoot
    \/ GetCategories
    \/ ResolveCategory
    \/ GotoCategory
    \/ ScrapeFirst
    \/ Paginate
    \/ SearchJsonRespond
    \/ CategoriesJson

SpecDriver == DriverInit /\ [][DriverNext]_vars

-----------------------------------------------------------------------------
(* A category whose pages never end: every page has a next-page control     *)
(* with an href, and following it goes round a cycle of pages               *)

\* the pages of the cycle, by their card titles
CyclePages == << <<(<<84>>)>>, <<(<<32, 85>>), (<<>>)>> >>

\* the page that is page number n of the category
CyclePage(n) == CyclePages[((n - 1) % Len(CyclePages)) + 1]

\* lines 111-129 on such a site: li.next > a is always there, with an href
PaginateCycle == PaginateWith({CyclePage(pages_seen + 1)}, {"link"})

\* search_product called on its own
PagingInit ==
    /\ DriverInit
    /\ entry = "driver"

PagingNext ==
    \/ DriverCall
    \/ GotoRoot
    \/ GetCategories
    \/ ResolveCategory
    \/ GotoCategory
    \/ ScrapeFirst
    \/ PaginateCycle

SpecPaging == PagingInit /\ [][PagingNext]_vars

\* one more page is visited, within the cap, and the loop goes on
VisitsOneMorePage ==
    /\ pc' = "paginate"
    /\ pages_seen' = pages_seen + 1
    /\ pages_seen' <= PAGINATION_MAX_PAGES

\* the call ends, on the page it is on or on the next one when the limit is
\* reached there; after an extraction that was not interrupted by an
\* exception it returns the items collected
EndsWithItems ==
    /\ pc' = "returned"
    /\ pages_seen' \in {pages_seen, pages_seen + 1}
    /\ pages_seen' <= PAGINATION_MAX_PAGES
    /\ (ret' = "extracted") => data' = SuccessResult(resolved, items')
    /\ (loop_exit' = "cap") => (pages_seen = PAGINATION_MAX_PAGES /\ ret' = "extracted")

\* C24: on a site whose next-page control is always present (a cycle of
\* pages), every turn of the pagination loop either visits one page more,
\* never beyond PAGINATION_MAX_PAGES pages with the first included, or ends
\* the call, which returns the items collected: so the extraction visits at
\* most 50 pages and terminates.
C24_PaginationBounded ==
    [][(pc = "paginate") => (VisitsOneMorePage \/ EndsWithItems)]_vars

\* C24 witness: the cap ended the loop after 50 pages and their items came back
C24_Witness ==
    /\ loop_exit = "cap"
    /\ pages_seen = PAGINATION_MAX_PAGES
    /\ pc = "returned"
    /\ Len(items) > PAGINATION_MAX_PAGES
    /\ data = SuccessResult(resolved, items)

-----------------------------------------------------------------------------
(* Invocations one after the other: the server takes the next request, or   *)
(* the caller calls search_product again, once the one before has ended     *)

\* the limits of the invocations that follow one another
SessionLimits == {None, Some(1)}

\* the first invocation: search_product called directly, or GET /categories.json
SessionsInit ==
    /\ ResolveAtRest
    /\ ShapesAtRest
    /\ GoalAtRest
    /\ \/ /\ entry = "driver"
          /\ product \in Products
          /\ limit_in \in SessionLimits
          /\ auth = NoAuth
       \/ /\ entry = "categories_json"
          /\ product = <<>>
          /\ limit_in = None
          /\ auth \in AuthInputs
    /\ body_category = <<>>
    /\ pc = "idle"
    /\ browser = "none"
    /\ query = <<>>
    /\ limit = None
    /\ req_limit = 0
    /\ categories = <<>>
    /\ resolved = NoCategory
    /\ cards = <<>>
    /\ next_link = "none"
    /\ items = <<>>
    /\ pages_seen = 0
    /\ data = PyNone
    /\ ret = "none"
    /\ loop_exit = "none"
    /\ cats = <<>>
    /\ out = NoResponse
    /\ invocation = 1
    /\ prior = 0
    /\ launched = 0
    /\ live = {}
    /\ session = 0

\* the invocation has ended and the next one begins, with locals of its own
NextInvocation ==
    /\ (entry = "driver" /\ pc = "returned") \/ pc = "responded"
    /\ invocation < MaxInvocations
    /\ invocation' = invocation + 1
    /\ prior' = launched
    /\ session' = 0
    /\ \/ /\ entry' = "driver"
          /\ product' \in Products
          /\ limit_in' \in SessionLimits
          /\ auth' = NoAuth
       \/ /\ entry' = "categories_json"
          /\ product' = <<>>
          /\ limit_in' = None
          /\ auth' \in AuthInputs
    /\ body_category' = <<>>
    /\ pc' = "idle"
    /\ browser' = "none"
    /\ query' = <<>>
    /\ limit' = None
    /\ req_limit' = 0
    /\ categories' = <<>>
    /\ resolved' = NoCategory
    /\ cards' = <<>>
    /\ next_link' = "none"
    /\ items' = <<>>
    /\ pages_seen' = 0
    /\ data' = PyNone
    /\ ret' = "none"
    /\ loop_exit' = "none"
    /\ cats' = <<>>
    /\ out' = NoResponse
    /\ UNCHANGED <<launched, live>>
    /\ UNCHANGED <<resolveVars, shapeVars, goalVars>>

SessionsNext ==
    \/ DriverCall
    \/ GotoRoot
    \/ GetCategories
    \/ ResolveCategory
    \/ GotoCategory
    \/ ScrapeFirst
    \/ Paginate
    \/ CategoriesJson
    \/ NextInvocation

SpecSessions == SessionsInit /\ [][SessionsNext]_vars

-----------------------------------------------------------------------------
(* Browser sessions: claims *)

\* C11: every invocation of search_product launches exactly one browser
\* session, of its own and not one of an earlier invocation, and that session
\* is torn down on every way the invocation ends (a return after
\* browser.close(), or an exception leaving the with block); the fetch of
\* /categories.json does the same.
C11_SessionTornDown ==
    /\ (pc = "idle") => (session = 0 /\ live = {} /\ launched = prior)
    /\ (entry = "driver" /\ pc \notin {"idle", "returned"}) =>
          (launched = prior + 1 /\ session = launched /\ live = {session} /\ browser = "open")
    /\ (entry = "driver" /\ pc = "returned") =>
          /\ launched = prior + 1
          /\ session = launched
          /\ live = {}
          /\ browser = (IF ret = "raised" THEN "stopped" ELSE "closed")
    /\ (entry = "categories_json" /\ pc = "responded") =>
          /\ live = {}
          /\ IF auth_or_api_key_ok(auth)
             THEN launched = prior + 1 /\ session = launched /\ browser \in {"closed", "stopped"}
             ELSE launched = prior /\ session = 0 /\ browser = "none"

\* C11 witness: a second invocation of search_product ended by an exception,
\* with the session it launched itself torn down, after a first invocation
\* that had launched one too.
C11_Witness ==
    /\ invocation = 2
    /\ prior = 1
    /\ entry = "driver"
    /\ pc = "returned"
    /\ ret = "raised"
    /\ session = 2
    /\ live = {}

-----------------------------------------------------------------------------
(* search_product, /search-json and /categories.json: claims *)

Field(d, k) == d.v[k]
Note(d) == Field(Field(d, "meta"), "note")
NoQueryNote == PyStr("No query provided; listing categories")

\* the invocation is over: search_product is back (called directly), or the
\* endpoint has answered
Finished == (entry = "driver" /\ pc = "returned") \/ pc = "responded"

\* C3 as stated: a non-empty query that resolves to no category ends in
\* status "choices" with no items and every category name.
C3_NoMatchIsChoices ==
    (ret = "no_match") =>
        /\ Field(data, "status") = PyStr("choices")
        /\ Field(data, "items") = EmptyList
        /\ Field(Field(data, "meta"), "categories") = NamesOf(categories)

\* C3 amended: a non-empty query that resolves to no category ends in status
\* "success" (there is no status "choices") with an empty items list and
\* every category name under meta.categories, from search_product and from
\* /search-json alike.
C3_NoMatchIsSuccess ==
    (ret = "no_match") =>
        /\ query # <<>>
        /\ Field(data, "status") = PyStr("success")
        /\ Field(data, "category") = PyStr(query)
        /\ Field(data, "items") = EmptyList
        /\ Field(Field(data, "meta"), "categories") = NamesOf(categories)
        /\ (entry = "search_json" /\ pc = "responded") =>
              /\ out.code = 200
              /\ Field(out.body, "status") = PyStr("success")
              /\ Field(out.body, "items") = EmptyList
              /\ Field(Field(out.body, "meta"), "categories") = NamesOf(categories)

\* C3 witness: /search-json answered "zzz-nonsense" against the three-entry
\* sidebar with all three names.
C3_Witness ==
    /\ ret = "no_match"
    /\ entry = "search_json"
    /\ pc = "responded"
    /\ product = QueryNonsense
    /\ Field(Field(out.body, "meta"), "categories") = PyList(<<PyStr(Travel), PyStr(Mystery), PyStr(FoodAndDrink)>>)

\* C4 as stated: on every entry path an empty or blank query, once the site
\* could be read, ends without status "error".
C4_EmptyQueryNeverError ==
    /\ (entry = "driver" /\ pc = "returned" /\ strip(product) = <<>>
           /\ ret \notin {"root_timeout", "categories_timeout", "raised"}) =>
          Field(data, "status") # PyStr("error")
    /\ (entry = "search_json" /\ pc = "responded"
           /\ body_text(product, body_category) = <<>>) =>
          Field(out.body, "status") # PyStr("error")

\* C4 amended: search_product answers an empty or blank query, once root and
\* sidebar are loaded, with status "success", category "", no items, every
\* category name and a note of its own, which a no-match answer never
\* carries; /search-json answers an empty or blank product with HTTP 400,
\* status "error" and items [], and never enters the driver.
C4_EmptyQueryListsInDriverOnly ==
    /\ (entry = "driver" /\ pc = "returned" /\ strip(product) = <<>>) =>
          ret \in {"no_query", "root_timeout", "categories_timeout", "raised"}
    /\ (ret = "no_query") =>
          /\ entry = "driver"
          /\ strip(product) = <<>>
          /\ Field(data, "status") = PyStr("success")
          /\ Field(data, "category") = PyStr(<<>>)
          /\ Field(data, "items") = EmptyList
          /\ Field(Field(data, "meta"), "categories") = NamesOf(categories)
          /\ Note(data) = NoQueryNote
    /\ (ret = "no_match") =>
          /\ Field(data, "category") # PyStr(<<>>)
          /\ Note(data) # NoQueryNote
    /\ (entry = "search_json" /\ pc = "responded"
           /\ body_text(product, body_category) = <<>>) =>
          /\ out.code = 400
          /\ Field(out.body, "status") = PyStr("error")
          /\ Field(out.body, "items") = EmptyList
          /\ browser = "none"
          /\ ret = "none"

\* C4 witness: search_product listed the three categories for a blank query.
C4_Witness ==
    /\ entry = "driver"
    /\ pc = "returned"
    /\ product = <<32>>
    /\ ret = "no_query"
    /\ Len(Field(Field(data, "meta"), "categories").v) = 3

\* C5 as stated: obtaining the category list never ends in an error and
\* always yields at least one entry.
C5_TaxonomyNeverFails ==
    /\ (entry = "categories_json" /\ pc = "responded" /\ auth_or_api_key_ok(auth)) =>
          /\ Field(out.body, "status") = PyStr("success")
          /\ Len(Field(out.body, "categories").v) >= 1
    /\ ret \notin {"root_timeout", "categories_timeout"}
    /\ (pc \in {"resolve", "goto_category", "scrape_first", "paginate"}) => Len(categories) >= 1

\* C5 amended: the category list is always the live one, with no cache and no
\* built-in list behind it.  /categories.json answers an authorized caller
\* either 200 with status "success" and exactly the non-empty sidebar texts
\* (possibly none, count 0), or, when the fetch times out or fails, 500 with
\* status "error" and no list; search_product answers a timeout on the root
\* page or the sidebar with status "error", no items and no list.
C5_TaxonomyIsLive ==
    /\ (entry = "categories_json" /\ pc = "responded" /\ auth_or_api_key_ok(auth)) =>
          \/ /\ ret = "fetched"
             /\ out.code = 200
             /\ Field(out.body, "status") = PyStr("success")
             /\ Field(out.body, "categories") = PyList([i \in 1..Len(cats) |-> PyStr(cats[i])])
             /\ Field(out.body, "count") = PyInt(Len(cats))
             /\ \A i \in 1..Len(cats) : cats[i] # <<>>
             /\ \E nav \in SiteNavs :
                   {cats[i] : i \in 1..Len(cats)} = {strip(nav[i]) : i \in 1..Len(nav)} \ {<<>>}
          \/ /\ ret = "fetch_failed"
             /\ out.code = 500
             /\ Field(out.body, "status") = PyStr("error")
             /\ "categories" \notin DOMAIN out.body.v
             /\ cats = <<>>
    /\ (ret \in {"root_timeout", "categories_timeout"}) =>
          /\ Field(data, "status") = PyStr("error")
          /\ Field(data, "items") = EmptyList
          /\ "categories" \notin DOMAIN Field(data, "meta").v
          /\ categories = <<>>

\* C5 witness: the fetch of /categories.json failed and was answered 500.
C5_Witness ==
    /\ entry = "categories_json"
    /\ pc = "responded"
    /\ ret = "fetch_failed"
    /\ out.code = 500

\* the cards of the current page that carry a title
TitledCards == {i \in 1..Len(cards) : clean_text(cards[i]) # <<>>}

\* C7: with a limit >= 1, search_product returns at most limit items, and so
\* does /search-json, however many cards and pages the category has.
C7_LimitRespected ==
    /\ (pc = "returned" /\ ret = "extracted" /\ limit # None) =>
          Len(Field(data, "items").v) <= limit[1]
    /\ (entry = "driver" /\ limit_in # None /\ limit_in[1] >= 1) =>
          (limit = limit_in \/ pc = "idle") /\ Len(items) <= limit_in[1]
    /\ (entry = "search_json" /\ pc = "responded" /\ req_limit >= 1) =>
          Len(Field(out.body, "items").v) <= req_limit

\* C7 witness: search_product with limit 2 returned 2 items from two pages
\* and left a titled card of the second page unread.
C7_Witness ==
    /\ entry = "driver"
    /\ pc = "returned"
    /\ limit = Some(2)
    /\ pages_seen = 2
    /\ Len(Field(data, "items").v) = 2
    /\ Cardinality(TitledCards) = 2

\* C8: once a limit is given and that many items are collected, no further
\* page is loaded in the invocation: neither with search_product's limit nor
\* with the limit of a /search-json request.
C8_LimitStopsExtraction ==
    [][(\/ limit # None /\ Len(items) >= limit[1]
        \/ entry = "search_json" /\ req_limit >= 1 /\ Len(items) >= req_limit)
       => pages_seen' = pages_seen]_vars

\* C9: when the first page was scraped and the step to a later page timed
\* out, search_product returns status "success" with exactly the items
\* collected so far.
C9_PartialOnLateTimeout ==
    (loop_exit = "timeout") =>
        /\ ret = "extracted"
        /\ pages_seen >= 1
        /\ Field(data, "status") = PyStr("success")
        /\ Field(data, "items") = PyList(items)
        /\ Field(Field(data, "meta"), "count") = PyInt(Len(items))

\* C9 witness: a timeout after the first page, with an item in hand.
C9_Witness ==
    /\ entry = "driver"
    /\ pc = "returned"
    /\ loop_exit = "timeout"
    /\ pages_seen = 1
    /\ Len(Field(data, "items").v) >= 1

\* C10: when the category page or its item grid timed out, the search ends
\* with status "error" and no items, and nothing was or is extracted.
C10_FirstPageFailureFatal ==
    (ret = "category_timeout") =>
        /\ pc \in {"returned", "responded"}
        /\ Field(data, "status") = PyStr("error")
        /\ Field(data, "items") = EmptyList
        /\ items = <<>>
        /\ cards = <<>>
        /\ pages_seen = 0
        /\ loop_exit = "none"
        /\ (pc = "responded") =>
              /\ Field(out.body, "status") = PyStr("error")
              /\ Field(out.body, "items") = EmptyList

\* C10 witness: the category page of a resolved query timed out.
C10_Witness ==
    /\ ret = "category_timeout"
    /\ pc = "returned"
    /\ resolved.some

\* C21: a request to /categories.json or /search-json that has neither a
\* session nor the configured key (and any request without a session when no
\* key is configured) launches no browser and is answered 401 with the
\* status "error"
C21_JsonApisGated ==
    (entry \in {"categories_json", "search_json"} /\ ~auth_or_api_key_ok(auth))
        => /\ launched = prior
           /\ browser = "none"
           /\ (pc = "responded") =>
                 (out.code = 401 /\ GetOrNone(out.body, "status") = PyStr("error"))

-----------------------------------------------------------------------------
(* app.py: _normalize_search_payload *)

\* lines 97-142
\* mutant of legacy_status: a record normalized from the flat shape is an error
legacy_status_error(payload) == PyStr("error")
\* line 119: raw.get("status", "success")
legacy_status(payload) == Get(payload, "status", PyStr("success"))

normalize_search_payload(payload, requested_category) ==
    IF ~IsDict(payload)
    THEN PyDict([agent |-> PyStr(AGENT_NAME), status |-> PyStr("error"),
                 category |-> PyStr(requested_category), items |-> EmptyList,
                 meta |-> PyDict([note |-> PyStr("Non-dict payload from driver; normalized to empty list")])])
    ELSE IF IsList(GetOrNone(payload, "items")) THEN payload
    ELSE LET title == GetOrNone(payload, "title")
             price == GetOrNone(payload, "price")
             meta == GetOrNone(payload, "meta")
             meta_out == IF IsDict(meta) THEN meta
                         ELSE IF IsStr(meta) THEN PyDict([legacy_meta |-> meta])
                         ELSE EmptyDict
         IN PyDict([
                agent |-> Get(payload, "agent", PyStr(AGENT_NAME)),
                status |-> legacy_status(payload),
                category |-> IF Truthy(GetOrNone(payload, "category"))
                             THEN GetOrNone(payload, "category")
                             ELSE PyStr(requested_category),
                items |-> IF Truthy(title)
                          THEN PyList(<<PyDict([title |-> title, price |-> price])>>)
                          ELSE EmptyList,
                meta |-> Merge(meta_out, PyDict([normalized |-> PyBool(TRUE)]))])

-----------------------------------------------------------------------------
(* mcp_agent.py: search_product *)

\* lines 98-103 of _http: every attempt raised
TransportFailure ==
    PyDict([status |-> PyStr("error"), message |-> PyStr("connection refused")])

\* lines 93-95 of _http: a JSON content type over a body that does not decode
JsonDecodeFailure ==
    PyDict([status |-> PyStr("error"), message |-> PyStr("JSON decode error")])

\* mutant of agent_search_product: whatever sits under "items" is taken
agent_search_product_trusting(reply) ==
    IF IsDict(reply)
    THEN PyDict([status |-> Get(reply, "status", PyStr("error")),
                 items |-> Get(reply, "items", EmptyList),
                 meta |-> Get(reply, "meta", EmptyDict),
                 agent |-> Get(reply, "agent", PyStr(AGENT_NAME))])
    ELSE PyDict([status |-> PyStr(IF IsList(reply) THEN "success" ELSE "error"),
                 items |-> IF IsList(reply) THEN reply ELSE EmptyList,
                 meta |-> EmptyDict, agent |-> PyStr(AGENT_NAME)])

\* lines 145-172, from the payload _api_post handed back; the timings entry
\* of the result is a clock reading and is left out
agent_search_product(reply) ==
    IF IsDict(reply)
    THEN LET inner == GetOrNone(reply, "data")
         IN PyDict([
                status |-> Get(reply, "status", PyStr("error")),
                items |-> IF IsList(GetOrNone(reply, "items")) THEN reply.v["items"]
                          ELSE IF IsDict(inner) /\ IsList(GetOrNone(inner, "items"))
                               THEN inner.v["items"]
                          ELSE EmptyList,
                meta |-> Get(reply, "meta", EmptyDict),
                agent |-> Get(reply, "agent", PyStr(AGENT_NAME))])
    ELSE IF IsList(reply)
    THEN PyDict([status |-> PyStr("success"), items |-> reply,
                 meta |-> EmptyDict, agent |-> PyStr(AGENT_NAME)])
    ELSE PyDict([status |-> PyStr("error"), items |-> EmptyList,
                 meta |-> EmptyDict, agent |-> PyStr(AGENT_NAME)])

-----------------------------------------------------------------------------
(* Payload harness: one upstream payload handed to the normalizer, to       *)
(* /search-json in place of search_product's return value, and, by way of   *)
(* the HTTP reply, to the agent's search_product                            *)

\* a key the dict does not have
Absent == [t |-> "absent"]

\* "Category: Travel", the meta of a legacy record, and the start of an HTML page
LegacyMetaText == <<67, 97, 116, 101, 103, 111, 114, 121, 58, 32>> \o Travel
HtmlText == <<60, 104, 116, 109, 108, 62>>

BookT == Item(<<84>>)
BookU == Item(<<85>>)

\* dicts with every combination of the keys below absent, None, of the
\* expected type or of another type
PayloadFields ==
    [items : {Absent, PyNone, EmptyList, PyList(<<BookT>>), PyList(<<BookT, BookU>>),
              BookT, PyStr(<<84>>)},
     title : {Absent, PyNone, PyStr(<<>>), PyStr(<<84>>)},
     price : {Absent, PyStr(PriceText)},
     status : {Absent, PyStr("success"), PyStr("error")},
     category : {Absent, PyStr(Travel)},
     meta : {Absent, PyStr(LegacyMetaText), EmptyDict}]

DictOf(f) == PyDict(Restrict(f, {k \in DOMAIN f : f[k] # Absent}))

Payloads ==
    {DictOf(f) : f \in PayloadFields}
        \cup {PyNone, PyStr(<<84>>), PyInt(1), EmptyList, PyList(<<BookT>>), PyRaised}

\* what _api_post can hand back for the request: the JSON body /search-json
\* sent, the payload relayed as it is or wrapped under "data" by another
\* server build, the text of a non-JSON reply, or _http's own error dicts
Replies ==
    {served.body, PyDict([data |-> raw]), PyStr(HtmlText), TransportFailure, JsonDecodeFailure}
        \cup (IF raw = PyRaised THEN {} ELSE {raw})

ShapesInit ==
    /\ ResolveAtRest
    /\ DriverAtRest
    /\ GoalAtRest
    /\ raw \in Payloads
    /\ requested = Travel
    /\ slimit \in 0..MaxLimit
    /\ normalized = Unset
    /\ served = NoResponse
    /\ resp = Unset
    /\ agent_out = Unset

\* _normalize_search_payload(raw, requested); a call that raised hands over
\* no payload
Normalize ==
    /\ normalized = Unset
    /\ raw # PyRaised
    /\ normalized' = normalize_search_payload(raw, requested)
    /\ UNCHANGED <<raw, requested, slimit, served, resp, agent_out>>
    /\ UNCHANGED <<resolveVars, driverVars, goalVars>>

\* search_json from line 426 on
ServeSearchJson ==
    /\ served = NoResponse
    /\ served' = search_json_respond(raw, requested, slimit)
    /\ UNCHANGED <<raw, requested, slimit, normalized, resp, agent_out>>
    /\ UNCHANGED <<resolveVars, driverVars, goalVars>>

\* mcp_agent.search_product
AgentSearchProduct ==
    /\ served # NoResponse
    /\ agent_out = Unset
    /\ \E reply \in Replies :
          /\ resp' = reply
          /\ agent_out' = agent_search_product(reply)
    /\ UNCHANGED <<raw, requested, slimit, normalized, served>>
    /\ UNCHANGED <<resolveVars, driverVars, goalVars>>

ShapesNext ==
    \/ Normalize
    \/ ServeSearchJson
    \/ AgentSearchProduct

SpecShapes == ShapesInit /\ [][ShapesNext]_vars

-----------------------------------------------------------------------------
(* Payload shapes: claims *)

HasItemsList(d) == IsDict(d) /\ "items" \in DOMAIN d.v /\ IsList(d.v["items"])

\* C6: whatever the upstream payload is (items already a list, a single dict,
\* a legacy flat title/price record, None, a non-dict, or an exception), the
\* results of the normalizer, of /search-json and of the agent's
\* search_product each carry "items", and it is a list.
C6_ItemsAlwaysList ==
    /\ (normalized # Unset) => HasItemsList(normalized)
    /\ (served # NoResponse) => HasItemsList(served.body)
    /\ (agent_out # Unset) => HasItemsList(agent_out)

\* C6 witness: a legacy flat record with a title and no items went through all
\* three: the normalizer wrapped it, /search-json and the agent, handed the
\* record as it is, answered with an empty list.
C6_Witness ==
    /\ IsDict(raw)
    /\ "items" \notin DOMAIN raw.v
    /\ GetOrNone(raw, "title") = PyStr(<<84>>)
    /\ HasItemsList(normalized)
    /\ Len(normalized.v["items"].v) = 1
    /\ HasItemsList(served.body)
    /\ served.body.v["items"] = EmptyList
    /\ resp = raw
    /\ HasItemsList(agent_out)
    /\ agent_out.v["items"] = EmptyList

\* a dict the normalizer finds neither an items list nor a title in
Unrecognized(x) ==
    /\ IsDict(x)
    /\ ~IsList(GetOrNone(x, "items"))
    /\ ~Truthy(GetOrNone(x, "title"))

\* the normalizer's result is an error with no items and a note in its meta
Flagged(d) ==
    /\ IsDict(d)
    /\ GetOrNone(d, "status") = PyStr("error")
    /\ GetOrNone(d, "items") = EmptyList
    /\ IsDict(GetOrNone(d, "meta"))
    /\ "note" \in DOMAIN d.v["meta"].v

\* C20 (as claimed): for a payload that is not a dict, and for a dict with
\* neither an items list nor a title or price, the normalizer returns an
\* error with an empty items list and a note in meta
C20_UnrecognizedFlagged ==
    (/\ normalized # Unset
     /\ \/ ~IsDict(raw)
        \/ /\ Unrecognized(raw)
           /\ "title" \notin DOMAIN raw.v
           /\ "price" \notin DOMAIN raw.v)
        => Flagged(normalized)

\* C20 (amended): the normalizer returns a dict for every payload; for a
\* payload that is not a dict it is an error with an empty items list and a
\* note in meta; for a dict with neither an items list nor a non-empty title
\* it has the payload's status ("success" when it has none), an empty
\* items list and a meta marked normalized, with no note added
C20_NonDictFlagged ==
    normalized # Unset =>
        /\ IsDict(normalized)
        /\ ~IsDict(raw) => Flagged(normalized)
        /\ Unrecognized(raw) =>
              /\ GetOrNone(normalized, "status") = Get(raw, "status", PyStr("success"))
              /\ GetOrNone(normalized, "items") = EmptyList
              /\ GetOrNone(normalized.v["meta"], "normalized") = PyBool(TRUE)
              /\ "note" \notin DOMAIN normalized.v["meta"].v

\* C20 witness: an empty dict, or one with a price alone, came back as a
\* success with no items and no note
C20_Witness ==
    /\ normalized # Unset
    /\ Unrecognized(raw)
    /\ DOMAIN raw.v \subseteq {"price"}
    /\ GetOrNone(normalized, "status") = PyStr("success")
    /\ GetOrNone(normalized, "items") = EmptyList
    /\ "note" \notin DOMAIN normalized.v["meta"].v

\* the keys of the shape _normalize_search_payload's docstring names
SearchResultKeys == {"agent", "status", "category", "items", "meta"}

\* C25: when the raw payload already has an items list, the normalized
\* result has every key of the result shape, with status "success" and the
\* requested category where the raw payload has none.
C25_PassThroughDefaults ==
    (normalized # Unset /\ HasItemsList(raw)) =>
        /\ IsDict(normalized)
        /\ SearchResultKeys \subseteq DOMAIN normalized.v
        /\ GetOrNone(normalized, "status") = Get(raw, "status", PyStr("success"))
        /\ GetOrNone(normalized, "category") = Get(raw, "category", PyStr(requested))

-----------------------------------------------------------------------------
(* json.dumps, json.loads and str() on the values a goal is made of *)

\* texts the code compares with or builds from
TextSearch == <<115, 101, 97, 114, 99, 104>>
TextFind == <<102, 105, 110, 100>>
SEARCH_PRODUCT == <<115, 101, 97, 114, 99, 104, 95, 112, 114, 111, 100, 117, 99, 116>>
BUILTIN == <<98, 117, 105, 108, 116, 105, 110>>
TextNone == <<78, 111, 110, 101>>
TextNull == <<110, 117, 108, 108>>
UnknownIntentPrefix == <<117, 110, 107, 110, 111, 119, 110, 32, 105, 110, 116, 101, 110, 116, 58, 32>>

\* sub in s
HasSub(s, sub) ==
    \E i \in 0..(Len(s) - Len(sub)) : \A k \in 1..Len(sub) : s[i + k] = sub[k]

\* the decimal digits of n >= 0
RECURSIVE Digits(_)
Digits(n) == IF n < 10 THEN <<48 + n>> ELSE Append(Digits(n \div 10), 48 + (n % 10))

\* str(n) and json.dumps(n) of an int
IntText(n) == IF n < 0 THEN <<45>> \o Digits(0 - n) ELSE Digits(n)

\* the keys of dicts, as text
KeyText(k) ==
    CASE k = "intent" -> <<105, 110, 116, 101, 110, 116>>
      [] k = "query"  -> <<113, 117, 101, 114, 121>>
      [] k = "steps"  -> <<115, 116, 101, 112, 115>>
      [] k = "goal"   -> <<103, 111, 97, 108>>

HexDigit(n) == IF n < 10 THEN 48 + n ELSE 87 + n

\* json.dumps of one character of a str (ensure_ascii): the two-character
\* escapes, \uXXXX for what is not printable ASCII, else the character
EscapeChar(c) ==
    CASE c = 34 -> <<92, 34>>
      [] c = 92 -> <<92, 92>>
      [] c = 10 -> <<92, 110>>
      [] c = 13 -> <<92, 114>>
      [] c = 9  -> <<92, 116>>
      [] c = 12 -> <<92, 102>>
      [] c = 8  -> <<92, 98>>
      [] c \in 32..126 -> <<c>>
      [] OTHER -> <<92, 117, HexDigit(c \div 4096), HexDigit((c \div 256) % 16),
                    HexDigit((c \div 16) % 16), HexDigit(c % 16)>>

RECURSIVE EscapeFrom(_, _)
EscapeFrom(s, i) == IF i > Len(s) THEN <<>> ELSE EscapeChar(s[i]) \o EscapeFrom(s, i + 1)

\* the keys of a dict in the order json.dumps writes them (insertion order,
\* which for the goals here is intent, query, steps)
KeyOrder == <<"intent", "query", "steps", "goal">>
KeysOf(d) == SubSeqAt(KeyOrder, {i \in 1..Len(KeyOrder) : KeyOrder[i] \in DOMAIN d.v})

\* json.dumps(x) with the default separators ", " and ": "
RECURSIVE json_dumps(_)
RECURSIVE json_dumps_items(_, _)
RECURSIVE json_dumps_pairs(_, _, _)
json_dumps_items(l, i) ==
    IF i > Len(l) THEN <<>>
    ELSE (IF i > 1 THEN <<44, 32>> ELSE <<>>) \o json_dumps(l[i]) \o json_dumps_items(l, i + 1)
json_dumps_pairs(d, ks, i) ==
    IF i > Len(ks) THEN <<>>
    ELSE (IF i > 1 THEN <<44, 32>> ELSE <<>>)
         \o <<34>> \o KeyText(ks[i]) \o <<34, 58, 32>> \o json_dumps(d.v[ks[i]])
         \o json_dumps_pairs(d, ks, i + 1)
json_dumps(x) ==
    CASE x.t = "none" -> TextNull
      [] x.t = "int"  -> IntText(x.v)
      [] x.t = "str"  -> <<34>> \o EscapeFrom(x.v, 1) \o <<34>>
      [] x.t = "list" -> <<91>> \o json_dumps_items(x.v, 1) \o <<93>>
      [] x.t = "dict" -> <<123>> \o json_dumps_pairs(x, KeysOf(x), 1) \o <<125>>

\* len(json.dumps(x)), counted without writing the text out
RECURSIVE json_dumps_len(_)
json_dumps_len(x) ==
    CASE x.t = "none" -> 4
      [] x.t = "int"  -> Len(IntText(x.v))
      [] x.t = "str"  ->
            2 + Len(x.v)
              + Cardinality({i \in 1..Len(x.v) : Len(EscapeChar(x.v[i])) = 2})
              + 5 * Cardinality({i \in 1..Len(x.v) : Len(EscapeChar(x.v[i])) = 6})
      [] x.t = "list" ->
            2 + SumOver([i \in 1..Len(x.v) |-> json_dumps_len(x.v[i])], 1..Len(x.v))
              + 2 * Max(0, Len(x.v) - 1)
      [] x.t = "dict" ->
            2 + SumOver([k \in DOMAIN x.v |-> Len(KeyText(k)) + 4 + json_dumps_len(x.v[k])],
                        DOMAIN x.v)
              + 2 * Max(0, Cardinality(DOMAIN x.v) - 1)

\* str(x)
py_str(x) ==
    CASE x.t = "str"  -> x.v
      [] x.t = "int"  -> IntText(x.v)
      [] x.t = "none" -> TextNone

-----------------------------------------------------------------------------
(* mcp_agent.py: _goal_from_text *)

\* text.split()[-1]: the last run of characters that are not whitespace
LastWord(text) ==
    LET hi == CHOOSE i \in 1..Len(text) :
                  ~IsSpace(text[i]) /\ \A k \in (i + 1)..Len(text) : IsSpace(text[k])
        lo == CHOOSE i \in 1..hi :
                  /\ \A k \in i..hi : ~IsSpace(text[k])
                  /\ (i = 1 \/ IsSpace(text[i - 1]))
    IN [i \in 1..(hi - lo + 1) |-> text[lo + i - 1]]

\* text.split('"')[-2]: what stands between the last quote and the one before
\* it, or the start of the text
BeforeLastQuote(text) ==
    LET quotes == {i \in 1..Len(text) : text[i] = 34}
        last == CHOOSE i \in quotes : \A k \in quotes : k <= i
        before == {i \in quotes : i < last}
        prev == IF before = {} THEN 0 ELSE CHOOSE i \in before : \A k \in before : k <= i
    IN [i \in 1..(last - prev - 1) |-> text[prev + i]]

\* lines 221-238
goal_from_text(text) ==
    LET low == Lower(text)
    IN IF HasSub(low, TextSearch) \/ HasSub(low, TextFind)
       THEN PyDict([intent |-> PyStr(SEARCH_PRODUCT),
                    query |-> PyStr(IF \E i \in 1..Len(text) : text[i] = 34
                                    THEN BeforeLastQuote(text)
                                    ELSE LastWord(text))])
       ELSE PyDict([intent |-> PyStr(SEARCH_PRODUCT), query |-> PyStr(text)])

-----------------------------------------------------------------------------
(* mcp_agent.py: run_ai_goal *)

\* line 279: the size a serialized goal may not exceed
MAX_GOAL_LEN == 1024

\* configurations of ROBOT_MAX_STEPS (line 39, default 3) and ROBOT_RETRIES
\* (line 38, default 1): int() of the environment accepts any integer
MaxConfiguredSteps == 3
MaxRetries == 2
ConfiguredSteps == (0 - 1)..MaxConfiguredSteps
ConfiguredRetries == 0..MaxRetries

\* "list categories"
TextListCategories == <<108, 105, 115, 116, 32, 99, 97, 116, 101, 103, 111, 114, 105, 101, 115>>
\* "find travel"
TextFindTravel == <<102, 105, 110, 100, 32, 116, 114, 97, 118, 101, 108>>
\* "search "Travel" now"
TextSearchQuoted == <<115, 101, 97, 114, 99, 104, 32, 34, 84, 114, 97, 118, 101, 108, 34, 32, 110, 111, 119>>
\* " "
TextBlank == <<32>>
\* "delete_all", "list_categories", "Search_Product"
TextDeleteAll == <<100, 101, 108, 101, 116, 101, 95, 97, 108, 108>>
TextListIntent == <<108, 105, 115, 116, 95, 99, 97, 116, 101, 103, 111, 114, 105, 101, 115>>
TextSearchProductCapital == <<83, 101, 97, 114, 99, 104, 95, 80, 114, 111, 100, 117, 99, 116>>

\* a text of n letters x
Filler(n) == [i \in 1..n |-> 120]

\* the serialized size of the goal _goal_from_text makes of an empty text
EmptyGoalLen == json_dumps_len(goal_from_text(<<>>))
\* the longest free text whose goal is not too large, and the next longer one
FitText == Filler(MAX_GOAL_LEN - EmptyGoalLen)
OverText == Filler(MAX_GOAL_LEN - EmptyGoalLen + 1)

\* structured goals: intent supported, supported in another case, unsupported,
\* empty, not a string, absent; query a text, a number, absent
GoalObjects ==
    {DictOf([intent |-> i, query |-> q]) :
        i \in {Absent, PyStr(SEARCH_PRODUCT), PyStr(TextSearchProductCapital),
               PyStr(TextDeleteAll), PyStr(TextListIntent), PyStr(<<>>), PyInt(5)},
        q \in {Absent, PyStr(Travel), PyInt(7)}}

\* structured goals of the boundary sizes
BoundaryObjects ==
    {PyDict([intent |-> PyStr(SEARCH_PRODUCT), query |-> PyStr(t)]) : t \in {FitText, OverText}}

\* the JSON documents among the goal texts
JsonValues == GoalObjects \cup {PyInt(123), PyList(<<PyInt(1)>>), PyNone, PyStr(Travel)}
JsonDocuments == {<<json_dumps(v), v>> : v \in JsonValues}
JsonTexts == {doc[1] : doc \in JsonDocuments}

\* the goal texts that are not JSON
FreeTexts == {<<>>, TextBlank, TextListCategories, TextFindTravel, TextSearchQuoted,
              Travel, FitText, OverText}

\* json.loads (line 269) on the goal texts: the document's value, or raised
json_loads(s) ==
    IF s \in JsonTexts
    THEN (CHOOSE doc \in JsonDocuments : doc[1] = s)[2]
    ELSE PyRaised

\* mutant of max_steps_of: no lower bound
max_steps_of_unclamped(cap, st) ==
    Min(cap, IF st # None /\ st[1] # 0 THEN st[1] ELSE cap)
\* line 264: max(1, min(MAX_STEPS, steps or MAX_STEPS))
max_steps_of(cap, st) ==
    Max(1, Min(cap, IF st # None /\ st[1] # 0 THEN st[1] ELSE cap))

\* lines 266-276: the goal as a dict
normalize_goal(gl) ==
    IF IsStr(gl)
    THEN LET parsed == json_loads(gl.v)
         IN IF parsed.t = "raised" THEN goal_from_text(gl.v) ELSE parsed
    ELSE IF IsDict(gl) THEN gl
    ELSE PyDict([intent |-> PyStr(SEARCH_PRODUCT), query |-> PyStr(py_str(gl))])

\* mutant of goal_too_large: a goal of exactly the limit is rejected too
goal_too_large_inclusive(gg) == json_dumps_len(gg) >= MAX_GOAL_LEN
\* line 279
goal_too_large(gg) == json_dumps_len(gg) > MAX_GOAL_LEN

\* lines 281-286; run_id and timings are an identifier and a clock reading
TooLargeResult ==
    PyDict([status |-> PyStr("error"), message |-> PyStr("Goal payload is too large.")])

\* line 288: (g.get("intent") or "search_product").lower(); raised when g has
\* no get or the intent has no lower
goal_intent(gg) ==
    IF ~IsDict(gg) THEN PyRaised
    ELSE LET v == GetOrNone(gg, "intent")
         IN IF ~Truthy(v) THEN PyStr(SEARCH_PRODUCT)
            ELSE IF IsStr(v) THEN PyStr(Lower(v.v))
            ELSE PyRaised

\* line 296
is_search_product(it) == it = SEARCH_PRODUCT

\* mutant of loop_passes: a search that failed is made again until the budget
\* is used up
loop_passes_retrying(budget, ok) == IF ok THEN 1 ELSE budget
\* lines 292-319: how often the body of `for step_idx in range(max_steps)`
\* runs; the budget is at least 1 and the pass ends in break (lines 307, 319)
\* whether the search succeeded or not
loop_passes(budget, ok) == 1

\* final.get("status") == "success"
IsSuccess(d) ==
    IsDict(d) /\ LET v == GetOrNone(d, "status") IN IsStr(v) /\ v.v = "success"

\* lines 298-304: the step a search leaves
SearchStep(res) ==
    PyDict([step |-> PyInt(1), action |-> PyStr("search_product"),
            ok |-> PyBool(IsSuccess(res)), items |-> PyInt(Len(res.v["items"].v))])

\* lines 311-317
UnknownIntentStep(it) ==
    PyDict([step |-> PyInt(1), action |-> PyStr("unknown_intent"),
            ok |-> PyBool(FALSE), intent |-> PyStr(it)])

\* line 318
UnknownIntentFinal(it) ==
    PyDict([status |-> PyStr("error"), message |-> PyStr(UnknownIntentPrefix \o it)])

\* mutant of GoalResult: the run reports a success whatever the search gave
GoalResult_success(fin, taken) ==
    PyDict([status |-> PyStr("success"),
            result |-> fin, steps |-> PyList(taken), agent |-> PyStr(AGENT_NAME)])
\* lines 321-331
GoalResult(fin, taken) ==
    PyDict([status |-> PyStr(IF IsSuccess(fin) THEN "success" ELSE "error"),
            result |-> fin, steps |-> PyList(taken), agent |-> PyStr(AGENT_NAME)])

\* what POST /search-json {"product": q} can give back to _api_post: the
\* server's JSON answers, a page that is not JSON, or no answer at all
SearchReplies(q) ==
    (IF strip(q) = <<>>
     THEN {MissingProductResponse.body}
     ELSE {search_json_respond(d, strip(q), 0).body :
              d \in {NoMatchResult(strip(q), <<>>), PyRaised,
                     DriverResult("success", strip(q), <<BookT>>, [count |-> PyInt(1)])}})
        \cup {UnauthorizedResponse.body, PyStr(HtmlText), TransportFailure}

\* _http, lines 78-103: requests sent for one call, at most max(1, retries);
\* all of them when every attempt raised
Attempts(reply, retries) ==
    IF reply = TransportFailure THEN {Max(1, retries)} ELSE 1..Max(1, retries)

-----------------------------------------------------------------------------
(* mcp_agent.py: _http, one call *)

\* the retries argument: DEFAULT_RETRIES or what the caller passes, any integer
RetryInputs == (0 - 1)..MaxRetries

\* str(e) of what requests.request raises
ExcMessages == {"connection refused", "read timed out"}

\* "application/json", "application/json; charset=utf-8", "text/html"
CtJson == <<97, 112, 112, 108, 105, 99, 97, 116, 105, 111, 110, 47, 106, 115, 111, 110>>
CtJsonCharset == CtJson \o <<59, 32, 99, 104, 97, 114, 115, 101, 116, 61, 117, 116, 102, 45, 56>>
CtHtml == <<116, 101, 120, 116, 47, 104, 116, 109, 108>>

\* what the server can answer: a status code, a content-type header or none,
\* and a body that is an HTML page, the JSON document 123 or empty
HttpResponses ==
    [status_code : {200, 404, 500},
     content_type : {None, Some(CtJson), Some(CtJsonCharset), Some(CtHtml)},
     text : {HtmlText, IntText(123), <<>>}]

\* s.startswith(p)
startswith(s, p) == Len(s) >= Len(p) /\ SubSeq(s, 1, Len(p)) = p

\* resp.ok: the status code is below 400
resp_ok(r) == r.status_code < 400

\* dict(resp.headers)
resp_headers(r) ==
    IF r.content_type = None THEN EmptyDict
    ELSE PyDict("content-type" :> PyStr(r.content_type[1]))

\* the tuple _http returns
HttpReturn(ok, payload, status_code, headers) ==
    [ok |-> ok, payload |-> payload, status_code |-> status_code, headers |-> headers]

\* lines 88-97: what is returned for a response
http_response_return(r) ==
    LET ct == IF r.content_type = None THEN <<>> ELSE r.content_type[1]
    IN IF startswith(ct, CtJson)
       THEN IF json_loads(r.text) = PyRaised
            THEN HttpReturn(FALSE, JsonDecodeFailure, r.status_code, resp_headers(r))
            ELSE HttpReturn(resp_ok(r), json_loads(r.text), r.status_code, resp_headers(r))
       ELSE HttpReturn(resp_ok(r), PyStr(r.text), r.status_code, resp_headers(r))

\* line 103: every attempt raised
http_failure_return(exc) ==
    HttpReturn(FALSE, PyDict([status |-> PyStr("error"), message |-> PyStr(exc[1])]), 0, EmptyDict)

\* mutant of http_budget: the first attempt and then `retries` more
http_budget_and_first(retries) == Max(1, retries) + 1
\* line 79: the attempts of range(1, max(1, retries) + 1)
http_budget(retries) == Max(1, retries)

HttpInit ==
    /\ ResolveAtRest
    /\ DriverAtRest
    /\ ShapesAtRest
    /\ RouterAtRest
    /\ LoginAtRest
    /\ http_retries \in RetryInputs
    /\ http_pc = "loop"
    /\ attempt = 0
    /\ last_exc = None
    /\ tried = <<>>
    /\ http_resp = Unset
    /\ http_ret = Unset

\* lines 79-100: one turn of the for loop; requests.request raises or answers
HttpAttempt ==
    /\ http_pc = "loop"
    /\ attempt < http_budget(http_retries)
    /\ attempt' = attempt + 1
    /\ \/ \E e \in ExcMessages :
             /\ last_exc' = Some(e)
             /\ tried' = Append(tried, "raised")
             /\ http_pc' = IF attempt' < http_budget(http_retries) + 1 THEN "sleep" ELSE "loop"
             /\ UNCHANGED <<http_resp, http_ret>>
       \/ \E r \in HttpResponses :
             /\ http_resp' = r
             /\ tried' = Append(tried, "response")
             /\ http_ret' = http_response_return(r)
             /\ http_pc' = "returned"
             /\ UNCHANGED last_exc
    /\ UNCHANGED http_retries
    /\ UNCHANGED <<resolveVars, driverVars, shapeVars, routerVars, loginVars>>

\* line 101: time.sleep(0.2)
HttpSleep ==
    /\ http_pc = "sleep"
    /\ http_pc' = "loop"
    /\ UNCHANGED <<http_retries, attempt, last_exc, tried, http_resp, http_ret>>
    /\ UNCHANGED <<resolveVars, driverVars, shapeVars, routerVars, loginVars>>

\* line 103: the loop is over
HttpGiveUp ==
    /\ http_pc = "loop"
    /\ attempt >= http_budget(http_retries)
    /\ http_ret' = http_failure_return(last_exc)
    /\ http_pc' = "returned"
    /\ UNCHANGED <<http_retries, attempt, last_exc, tried, http_resp>>
    /\ UNCHANGED <<resolveVars, driverVars, shapeVars, routerVars, loginVars>>

HttpNext ==
    \/ HttpAttempt
    \/ HttpSleep
    \/ HttpGiveUp

SpecHttp == HttpInit /\ [][HttpNext]_vars

\* nothing but raised attempts so far
AllRaised == \A i \in 1..Len(tried) : tried[i] = "raised"

-----------------------------------------------------------------------------
(* app.py: api_run *)

\* "navigate", "goto", "http://x", " Travel "
TextNavigate == <<110, 97, 118, 105, 103, 97, 116, 101>>
TextGoto == <<103, 111, 116, 111>>
TextUrl == <<104, 116, 116, 112, 58, 47, 47, 120>>
TextPadded == <<32, 84, 114, 97, 118, 101, 108, 32>>

\* line 516: request.get_json(silent=True) or {}
api_data(b) == IF Truthy(b) THEN b ELSE EmptyDict

\* line 528: (data.get("goal") or "").strip(); raised when the goal has no strip
api_goal(d) ==
    LET v == GetOrNone(d, "goal")
    IN IF ~Truthy(v) THEN PyStr(<<>>)
       ELSE IF IsStr(v) THEN PyStr(strip(v.v))
       ELSE PyRaised

\* line 532: (data.get("planner") or "builtin").lower()
api_planner(d) ==
    LET v == GetOrNone(d, "planner")
    IN IF ~Truthy(v) THEN PyStr(BUILTIN)
       ELSE IF IsStr(v) THEN PyStr(Lower(v.v))
       ELSE PyRaised

\* a or b
PyOr(a, b) == IF Truthy(a) THEN a ELSE b

\* lines 536-540: when goal, navigate_url and steps are all falsy
InfersNavigate(d) ==
    /\ IsStr(GetOrNone(d, "action"))
    /\ GetOrNone(d, "action").v = TextNavigate
    /\ Truthy(GetOrNone(d, "target"))

\* lines 529 and 536-538
api_navigate_url(d) ==
    LET url == PyOr(GetOrNone(d, "navigate"), GetOrNone(d, "url"))
    IN IF ~Truthy(url) /\ ~Truthy(GetOrNone(d, "steps")) /\ InfersNavigate(d)
       THEN d.v["target"]
       ELSE url

\* lines 530 and 536-540
api_steps(d) ==
    LET url == PyOr(GetOrNone(d, "navigate"), GetOrNone(d, "url"))
        st == GetOrNone(d, "steps")
    IN IF ~Truthy(url) /\ ~Truthy(st) /\ ~InfersNavigate(d) /\ IsList(GetOrNone(d, "actions"))
       THEN d.v["actions"]
       ELSE st

\* lines 520-524
Bad(msg, extra, code) ==
    Response(code,
        IF Truthy(extra)
        THEN PyDict([status |-> PyStr("error"), message |-> PyStr(msg), details |-> extra])
        ELSE PyDict([status |-> PyStr("error"), message |-> PyStr(msg)]))

\* lines 517-518
BodyNotObjectResponse == Bad("Body must be a JSON object.", PyNone, 400)

\* lines 615-619; the details name the keys received, kept here as their number
InvalidPayloadResponse(d) ==
    Bad("Invalid payload for /api/run. Provide one of: {goal: string} | {navigate: url} | {steps: [ ... ]}",
        PyDict([received_keys |-> PyInt(Cardinality(DOMAIN d.v))]), 400)

\* lines 631-633: an exception no handler caught is answered by _500 with
\* the login page
UnhandledErrorResponse == Response(500, PyStr(HtmlText))

\* lines 549-554
GoalResponse(res, pl) ==
    Response(200, PyDict([status |-> PyStr(IF IsSuccess(res) THEN "success" ELSE "ok"),
                          agent |-> PyStr(AGENT_NAME), planner |-> pl, result |-> res]))

\* lines 555-560: run_ai_goal raised
GoalFailedResponse ==
    Response(500, PyDict([status |-> PyStr("error"),
                          message |-> PyStr("run_ai_goal failed: AttributeError")]))

\* lines 573-579
NavigateResponse(url) ==
    Response(200, PyDict([status |-> PyStr("success"), agent |-> PyStr(AGENT_NAME),
                          action |-> PyStr("navigate"), url |-> url]))

\* lines 580-582
NavigationFailedResponse ==
    Bad("Navigation failed", PyDict([error |-> PyStr("goto failed")]), 502)

\* line 594: (st.get("action") or "").lower()
step_action(st) ==
    IF ~IsDict(st) THEN PyRaised
    ELSE LET a == GetOrNone(st, "action")
         IN IF ~Truthy(a) THEN PyStr(<<>>)
            ELSE IF IsStr(a) THEN PyStr(Lower(a.v))
            ELSE PyRaised

\* lines 595-600: the step calls page.goto
IsGoto(st) ==
    /\ IsStr(step_action(st))
    /\ step_action(st).v \in {TextNavigate, TextGoto}
    /\ Truthy(PyOr(GetOrNone(st, "url"), GetOrNone(st, "target")))

\* lines 593-603: what step i appends to outputs, or raised
StepOutput(st, i, goto_ok) ==
    LET a == step_action(st)
    IN IF a.t = "raised" THEN PyRaised
       ELSE IF a.v \in {TextNavigate, TextGoto}
       THEN IF ~IsGoto(st)
            THEN PyDict([step |-> PyInt(i), status |-> PyStr("error"),
                         message |-> PyStr("navigate requires url")])
            ELSE IF goto_ok THEN PyDict([step |-> PyInt(i), status |-> PyStr("ok")])
            ELSE PyRaised
       ELSE PyDict([step |-> PyInt(i), status |-> PyStr("skipped"), action |-> a])

\* lines 605-609
StepsResponse(outs) ==
    Response(200, PyDict([status |-> PyStr("success"), agent |-> PyStr(AGENT_NAME),
                          executed |-> PyList(outs)]))

\* lines 610-612
StepsFailedResponse ==
    Bad("Steps execution failed", PyDict([error |-> PyStr("step raised")]), 502)

\* lines 585-612: the response and the number of page.goto calls
run_steps(l, goto_ok) ==
    LET outs == [i \in 1..Len(l) |-> StepOutput(l[i], i, goto_ok)]
        raisedAt == {i \in 1..Len(l) : outs[i].t = "raised"}
        last == IF raisedAt = {} THEN Len(l)
                ELSE CHOOSE i \in raisedAt : \A j \in raisedAt : i <= j
    IN [response |-> IF raisedAt = {} THEN StepsResponse(outs) ELSE StepsFailedResponse,
        gotos |-> Cardinality({i \in 1..last : IsGoto(l[i])})]

-----------------------------------------------------------------------------
(* Goal runs: run_ai_goal called directly, and POST /api/run *)

\* steps arguments: absent, zero, negative, up to one above the largest cap
StepsInputs == {None} \cup {Some(n) : n \in (0 - 1)..(MaxConfiguredSteps + 1)}

\* goals handed to run_ai_goal directly
DirectGoals ==
    {PyStr(t) : t \in FreeTexts \cup JsonTexts}
        \cup GoalObjects \cup BoundaryObjects \cup {PyNone, PyInt(7)}

\* callers of /api/run: a session, the right key, a wrong key
ApiAuthInputs ==
    {[session |-> TRUE, required |-> None, provided |-> None],
     [session |-> FALSE, required |-> Some(1), provided |-> Some(1)],
     [session |-> FALSE, required |-> Some(1), provided |-> Some(2)]}

\* step lists: navigate with a url, no action, a step that is not a dict
StepLists ==
    {EmptyList,
     PyList(<<PyDict([action |-> PyStr(TextNavigate), url |-> PyStr(TextUrl)])>>),
     PyList(<<PyDict([action |-> PyStr(TextGoto)]), PyDict([note |-> PyInt(1)])>>),
     PyList(<<PyDict([action |-> PyStr(TextNavigate), target |-> PyStr(TextUrl)]), PyInt(1)>>)}

\* bodies with a goal
GoalBodies ==
    {DictOf([goal |-> gv, planner |-> pv, steps |-> sv]) :
        gv \in {PyStr(t) : t \in FreeTexts \cup JsonTexts \cup {TextPadded}}
                 \cup {PyNone, PyInt(5),
                       PyDict([intent |-> PyStr(SEARCH_PRODUCT), query |-> PyStr(Travel)])},
        pv \in {Absent, PyStr(BUILTIN), PyInt(1)},
        sv \in {Absent, PyInt(2)}}

\* bodies without a goal
PlainBodies ==
    {DictOf(f) : f \in [navigate : {Absent, PyStr(TextUrl)},
                        url : {Absent, PyStr(TextUrl)},
                        steps : {Absent, PyInt(2)} \cup StepLists,
                        action : {Absent, PyStr(TextNavigate)},
                        target : {Absent, PyStr(TextUrl)},
                        actions : {Absent, PyList(<<PyDict([action |-> PyStr(TextGoto)])>>)}]}

\* what request.get_json(silent=True) can give: None for a body that is not
\* JSON, else the document
ApiBodies ==
    GoalBodies \cup PlainBodies \cup {PyNone, EmptyList, PyList(<<PyInt(1)>>), PyStr(Travel)}

GoalInit ==
    /\ ResolveAtRest
    /\ DriverAtRest
    /\ ShapesAtRest
    /\ HttpAtRest
    /\ LoginAtRest
    /\ MAX_STEPS \in ConfiguredSteps
    /\ DEFAULT_RETRIES \in ConfiguredRetries
    /\ \/ /\ gentry = "run_ai_goal"
          /\ gpc = "call"
          /\ api_auth = NoAuth
          /\ api_body = PyNone
          /\ goal \in DirectGoals
          /\ steps \in StepsInputs
       \/ /\ gentry = "api_run"
          /\ gpc = "request"
          /\ api_auth \in ApiAuthInputs
          /\ api_body \in ApiBodies
          /\ goal = PyNone
          /\ steps = None
    /\ max_steps = 0
    /\ g = Unset
    /\ intent = <<>>
    /\ goal_query = Unset
    /\ taken_steps = <<>>
    /\ final = Unset
    /\ searches = 0
    /\ posts = 0
    /\ navs = 0
    /\ run_result = Unset
    /\ api_out = NoResponse

runVars == <<max_steps, g, intent, goal_query, taken_steps, final, searches, posts, run_result>>

\* api_run, lines 500-546 and 563-619: everything but the goal run
ApiRun ==
    /\ gentry = "api_run"
    /\ gpc = "request"
    /\ LET d == api_data(api_body)
       IN IF ~auth_or_api_key_ok(api_auth)
          THEN /\ api_out' = UnauthorizedResponse
               /\ gpc' = "responded"
               /\ UNCHANGED <<goal, steps, navs>>
          ELSE IF ~IsDict(d)
          THEN /\ api_out' = BodyNotObjectResponse
               /\ gpc' = "responded"
               /\ UNCHANGED <<goal, steps, navs>>
          ELSE IF api_goal(d).t = "raised" \/ api_planner(d).t = "raised"
          THEN /\ api_out' = UnhandledErrorResponse
               /\ gpc' = "responded"
               /\ UNCHANGED <<goal, steps, navs>>
          ELSE IF Truthy(api_goal(d))
          THEN /\ goal' = api_goal(d)
               /\ steps' = None
               /\ gpc' = "call"
               /\ UNCHANGED <<api_out, navs>>
          ELSE IF Truthy(api_navigate_url(d))
          THEN /\ navs' = navs + 1
               /\ \E goto_ok \in BOOLEAN :
                     api_out' = IF goto_ok THEN NavigateResponse(api_navigate_url(d))
                                ELSE NavigationFailedResponse
               /\ gpc' = "responded"
               /\ UNCHANGED <<goal, steps>>
          ELSE IF IsList(api_steps(d))
          THEN /\ \E goto_ok \in BOOLEAN :
                     LET ran == run_steps(api_steps(d).v, goto_ok)
                     IN /\ api_out' = ran.response
                        /\ navs' = navs + ran.gotos
               /\ gpc' = "responded"
               /\ UNCHANGED <<goal, steps>>
          ELSE /\ api_out' = InvalidPayloadResponse(d)
               /\ gpc' = "responded"
               /\ UNCHANGED <<goal, steps, navs>>
    /\ UNCHANGED <<gentry, api_auth, api_body, MAX_STEPS, DEFAULT_RETRIES, runVars>>
    /\ UNCHANGED <<resolveVars, driverVars, shapeVars, httpVars, loginVars>>

\* run_ai_goal, lines 241-331. max_steps is at least 1 and both branches of
\* the loop body break, so the body runs once
RunAiGoal ==
    /\ gpc = "call"
    /\ LET gg == normalize_goal(goal)
           it == goal_intent(gg)
       IN /\ max_steps' = max_steps_of(MAX_STEPS, steps)
          /\ g' = gg
          /\ IF goal_too_large(gg)
             THEN /\ run_result' = TooLargeResult
                  /\ UNCHANGED <<intent, goal_query, taken_steps, final, searches, posts>>
             ELSE IF it.t = "raised"
             THEN /\ run_result' = PyRaised
                  /\ UNCHANGED <<intent, goal_query, taken_steps, final, searches, posts>>
             ELSE /\ intent' = it.v
                  /\ goal_query' = Get(gg, "query", PyStr(<<>>))
                  /\ IF is_search_product(it.v)
                     THEN \E reply \in SearchReplies(py_str(Get(gg, "query", PyStr(<<>>)))) :
                          \E n \in Attempts(reply, DEFAULT_RETRIES) :
                             LET res == agent_search_product(reply)
                             IN /\ searches' = searches
                                      + loop_passes(max_steps_of(MAX_STEPS, steps), IsSuccess(res))
                                /\ posts' = posts + n
                                /\ taken_steps' = Append(taken_steps, SearchStep(res))
                                /\ final' = res
                                /\ run_result' = GoalResult(res, Append(taken_steps, SearchStep(res)))
                     ELSE /\ taken_steps' = Append(taken_steps, UnknownIntentStep(it.v))
                          /\ final' = UnknownIntentFinal(it.v)
                          /\ run_result' = GoalResult(UnknownIntentFinal(it.v),
                                               Append(taken_steps, UnknownIntentStep(it.v)))
                          /\ UNCHANGED <<searches, posts>>
    /\ gpc' = "returned"
    /\ UNCHANGED <<gentry, api_auth, api_body, goal, steps, MAX_STEPS, DEFAULT_RETRIES,
                   navs, api_out>>
    /\ UNCHANGED <<resolveVars, driverVars, shapeVars, httpVars, loginVars>>

\* api_run, lines 547-561: run_ai_goal came back, or raised
ApiRunRespond ==
    /\ gentry = "api_run"
    /\ gpc = "returned"
    /\ api_out' = IF run_result.t = "raised" THEN GoalFailedResponse
                  ELSE GoalResponse(run_result, api_planner(api_data(api_body)))
    /\ gpc' = "responded"
    /\ UNCHANGED <<gentry, api_auth, api_body, goal, steps, MAX_STEPS, DEFAULT_RETRIES,
                   navs, runVars>>
    /\ UNCHANGED <<resolveVars, driverVars, shapeVars, httpVars, loginVars>>

GoalNext ==
    \/ ApiRun
    \/ RunAiGoal
    \/ ApiRunRespond

SpecGoal == GoalInit /\ [][GoalNext]_vars

-----------------------------------------------------------------------------
(* Goal runs: claims *)

\* the goal run is over
RunOver == gpc \in {"returned", "responded"} /\ g.t # "unset"

\* the goal was given as an object, or as the text of one
Structured(gl) == IsDict(gl) \/ (IsStr(gl) /\ IsDict(json_loads(gl.v)))

\* the goal names an intent and it is not search_product in any letter case
HasUnsupportedIntent(gg) ==
    /\ IsDict(gg)
    /\ "intent" \in DOMAIN gg.v
    /\ ~(IsStr(gg.v["intent"]) /\ Lower(gg.v["intent"].v) = SEARCH_PRODUCT)

\* the run came back with an error result
ErrorResult == IsDict(run_result) /\ GetOrNone(run_result, "status") = PyStr("error")

\* C12: once the run of a structured goal whose intent is not a supported one
\* is over, its result is an error whose message names that intent, and no
\* search was made and no request was sent to /search-json
C12_UnsupportedIntentIsError ==
    (RunOver /\ Structured(goal) /\ HasUnsupportedIntent(g))
        => /\ ErrorResult
           /\ IsDict(final)
           /\ IsStr(GetOrNone(final, "message"))
           /\ HasSub(final.v["message"].v, Lower(py_str(g.v["intent"])))
           /\ searches = 0
           /\ posts = 0

\* the run was refused for the size of its goal
RejectedForSize == IsDict(run_result) /\ "message" \in DOMAIN run_result.v

\* C13: once a run is over, if the goal as the runner holds it serializes to
\* more than 1024 characters the result is an error, no search was made, no
\* request was sent and no step was recorded; if it serializes to at most
\* 1024 characters the run was not refused for its size
C13_OversizedGoalRejected ==
    RunOver =>
        IF json_dumps_len(g) > MAX_GOAL_LEN
        THEN /\ ErrorResult
             /\ RejectedForSize
             /\ "steps" \notin DOMAIN run_result.v
             /\ taken_steps = <<>>
             /\ searches = 0
             /\ posts = 0
        ELSE ~RejectedForSize

\* C13 witness: a goal one character over the limit was refused
C13_Witness ==
    /\ RunOver
    /\ json_dumps_len(g) = MAX_GOAL_LEN + 1
    /\ RejectedForSize
    /\ searches = 0

\* a text with nothing in it but white space
IsBlankText(x) == IsStr(x) /\ strip(x.v) = <<>>

\* run_ai_goal was called with an empty or blank goal
EmptyGoalCalled == gentry = "run_ai_goal" /\ IsBlankText(goal)

\* an authorized caller posted an empty or blank goal to /api/run
EmptyGoalPosted ==
    /\ gentry = "api_run"
    /\ auth_or_api_key_ok(api_auth)
    /\ IsDict(api_body)
    /\ IsBlankText(GetOrNone(api_body, "goal"))

\* C14: an empty or blank goal is answered with an error and without a search,
\* when posted to /api/run and when handed to run_ai_goal
C14_EmptyGoalRejected ==
    /\ (EmptyGoalPosted /\ gpc = "responded")
          => api_out.code >= 400 /\ searches = 0 /\ posts = 0
    /\ (EmptyGoalCalled /\ gpc = "returned")
          => ErrorResult /\ searches = 0 /\ posts = 0

\* "list", "categor"
TextList == <<108, 105, 115, 116>>
TextCategor == <<99, 97, 116, 101, 103, 111, 114>>

\* a goal text that is not a JSON document was run
FreeTextRun ==
    /\ RunOver
    /\ IsStr(goal)
    /\ json_loads(goal.v).t = "raised"
    /\ ~RejectedForSize

\* the text asks for the list of categories
AsksForCategories(text) ==
    HasSub(Lower(text), TextList) /\ HasSub(Lower(text), TextCategor)

\* C15: a free text with "list" and "categor" in it was run as list_categories,
\* without a search, and its result carries the categories; every other free
\* text was run as search_product with the whole text as the query
C15_FreeTextClassified ==
    FreeTextRun =>
        IF AsksForCategories(goal.v)
        THEN /\ intent = TextListIntent
             /\ searches = 0
             /\ IsDict(final) /\ "categories" \in DOMAIN final.v
        ELSE /\ intent = SEARCH_PRODUCT
             /\ goal_query = PyStr(goal.v)

\* a search_product goal was run to its end
SearchRun ==
    /\ RunOver
    /\ IsDict(run_result)
    /\ ~RejectedForSize
    /\ intent = SEARCH_PRODUCT

\* the first search of the run failed
FirstAttemptFailed ==
    /\ Len(taken_steps) >= 1
    /\ taken_steps[1].v["action"] = PyStr("search_product")
    /\ taken_steps[1].v["ok"] = PyBool(FALSE)

\* C16 (as claimed): after a first attempt that failed, the run made exactly
\* one more attempt for the same intent, the fallback
C16_FallbackOnce ==
    (SearchRun /\ FirstAttemptFailed) => searches = 2 /\ Len(taken_steps) = 2

\* C16 (amended): a search_product run makes one search and no other, sends
\* between one and max(1, retries) requests to /search-json for it, and its
\* status is "success" exactly when that search's status is
C16_OneAttemptNoFallback ==
    SearchRun =>
        /\ searches = 1
        /\ Len(taken_steps) = 1
        /\ posts \in 1..Max(1, DEFAULT_RETRIES)
        /\ run_result.v["result"] = final
        /\ IsSuccess(run_result) <=> IsSuccess(final)
        /\ ~IsSuccess(final) => ErrorResult

\* C16 witness: the one search failed after a resent request and the run
\* ended in an error
C16_Witness ==
    /\ SearchRun
    /\ FirstAttemptFailed
    /\ searches = 1
    /\ posts = 2
    /\ ErrorResult

\* C17 (as claimed): whatever steps was asked for and whatever MAX_STEPS is
\* configured, the step budget lies between 1 and MAX_STEPS
C17_BudgetWithinCap ==
    RunOver => max_steps \in 1..MAX_STEPS

\* C17 (amended): the step budget lies between 1 and MAX_STEPS when MAX_STEPS
\* is at least 1, and is 1 when MAX_STEPS is less than 1
C17_BudgetWithinCapOrOne ==
    RunOver =>
        IF MAX_STEPS >= 1 THEN max_steps \in 1..MAX_STEPS ELSE max_steps = 1

\* C17 witness: with a cap of at least 2, a request above the cap was cut to it
C17_Witness ==
    /\ RunOver
    /\ MAX_STEPS >= 2
    /\ steps # None
    /\ steps[1] > MAX_STEPS
    /\ max_steps = MAX_STEPS

\* /api/run has answered an authorized caller
Answered ==
    /\ gentry = "api_run"
    /\ gpc = "responded"
    /\ auth_or_api_key_ok(api_auth)

\* the answer follows a goal run that came back
AnsweredRun == Answered /\ IsDict(run_result)

\* C18: every answer of /api/run to an authorized caller has the status
\* "success" or "error"; after a goal run that did not succeed it is "error",
\* and after a goal run it is "success" only when the run's result is
C18_StatusDomain ==
    /\ Answered
          => /\ IsDict(api_out.body)
             /\ GetOrNone(api_out.body, "status") \in {PyStr("success"), PyStr("error")}
    /\ (AnsweredRun /\ ~IsSuccess(run_result))
          => GetOrNone(api_out.body, "status") = PyStr("error")
    /\ (AnsweredRun /\ IsSuccess(run_result))
          => GetOrNone(api_out.body, "status") = PyStr("success")

\* C19: every answer of /api/run to an authorized caller is a JSON object with
\* a status in it, and its code is not 500
C19_AlwaysStructured ==
    Answered
        => /\ IsDict(api_out.body)
           /\ "status" \in DOMAIN api_out.body.v
           /\ api_out.code # 500

\* C23 (as claimed): a search_product run makes at most as many searches as
\* its step budget, makes another search exactly when the one before did not
\* succeed and budget is left, and stops at the first that succeeds
C23_RetryWithinBudget ==
    SearchRun =>
        /\ searches <= max_steps
        /\ (FirstAttemptFailed /\ max_steps >= 2) => searches >= 2
        /\ ~FirstAttemptFailed => searches = 1

\* C23 (amended): a search_product run makes at most as many searches as its
\* step budget, in fact one: no other search follows the first, whether it
\* succeeded or not
C23_OneSearchWithinBudget ==
    SearchRun =>
        /\ searches <= max_steps
        /\ searches = 1
        /\ Len(taken_steps) = searches

\* C23 witness: with a budget of at least 2 the first search failed and no
\* other was made
C23_Witness ==
    /\ SearchRun
    /\ max_steps >= 2
    /\ FirstAttemptFailed
    /\ searches = 1
    /\ ErrorResult

-----------------------------------------------------------------------------
(* app.py: /login *)

MAX_CRED_LENGTH == 50

\* generate_password_hash(pw): a salted hash, which check_password_hash
\* accepts for pw and for no other password
generate_password_hash(pw) == [alg |-> "pbkdf2", of |-> pw]
check_password_hash(h, pw) == h.of = pw

\* "a", "b", "p", "q"
NameA == <<97>>
NameB == <<98>>
PwP == <<112>>
PwQ == <<113>>

\* the users table: rows of (username, password hash); empty, or user a
\* registered with password p
UsersTables == {{}, {<<NameA, generate_password_hash(PwP)>>}}

\* form fields: absent, empty, a registered name (also with spaces around
\* it), an unknown name, a text over the length limit
FormUsernames == {None, Some(<<>>), Some(NameA), Some(<<32>> \o NameA \o <<32>>), Some(NameB),
                  Some(Filler(MAX_CRED_LENGTH + 1))}
FormPasswords == {None, Some(PwP), Some(PwQ)}

\* request.form.get(k) or ""
form_or_empty(f) == IF f = None THEN <<>> ELSE f[1]

\* line 219
too_long(x) == Len(x) > MAX_CRED_LENGTH

\* lines 174-183 and 163-172: the row of the name, None when there is no
\* such row, and None as well when the query raised
get_user(table, name, query_failed) ==
    IF query_failed THEN None
    ELSE IF \E row \in table : row[1] = name
    THEN Some(CHOOSE row \in table : row[1] = name)
    ELSE None

\* what the handler answers: status code, the page rendered or redirected to,
\* the message flashed
LoginResponse(code, page, flash) == [code |-> code, page |-> page, flash |-> flash]

LoginInit ==
    /\ ResolveAtRest
    /\ DriverAtRest
    /\ ShapesAtRest
    /\ RouterAtRest
    /\ HttpAtRest
    /\ users \in UsersTables
    /\ method \in {"GET", "POST"}
    /\ form_username \in FormUsernames
    /\ form_password \in FormPasswords
    /\ db_failed = FALSE
    /\ session_before \in {None, Some(NameB)}
    /\ login_session = session_before
    /\ login_pc = "request"
    /\ login_out = NoResponse

\* line 280 for a GET
LoginGet ==
    /\ login_pc = "request"
    /\ method = "GET"
    /\ login_out' = LoginResponse(200, "login.html", "")
    /\ login_pc' = "responded"
    /\ UNCHANGED <<users, method, form_username, form_password, db_failed, session_before,
                   login_session>>
    /\ UNCHANGED <<resolveVars, driverVars, shapeVars, routerVars, httpVars>>

\* lines 261-280 for a POST; the query of get_user works or raises
LoginPost ==
    /\ login_pc = "request"
    /\ method = "POST"
    /\ LET username == strip(form_or_empty(form_username))
           password == form_or_empty(form_password)
       IN IF too_long(username) \/ too_long(password)
          THEN /\ login_out' = LoginResponse(400, "login.html", "Credentials exceed 50 characters.")
               /\ UNCHANGED <<db_failed, login_session>>
          ELSE \E failed \in BOOLEAN :
                 LET user == get_user(users, username, failed)
                 IN /\ db_failed' = failed
                    /\ IF user = None
                       THEN /\ login_out' = LoginResponse(500, "login.html",
                                                "Database error - please try again later.")
                            /\ UNCHANGED login_session
                       ELSE IF check_password_hash(user[1][2], password)
                       THEN /\ login_session' = Some(username)
                            /\ login_out' = LoginResponse(302, "search_page", "Logged in successfully!")
                       ELSE /\ login_out' = LoginResponse(200, "login.html", "Invalid username or password.")
                            /\ UNCHANGED login_session
    /\ login_pc' = "responded"
    /\ UNCHANGED <<users, method, form_username, form_password, session_before>>
    /\ UNCHANGED <<resolveVars, driverVars, shapeVars, routerVars, httpVars>>

LoginNext ==
    \/ LoginGet
    \/ LoginPost

SpecLogin == LoginInit /\ [][LoginNext]_vars

\* the username the handler looks up, and whether the table has it
PostedUsername == strip(form_or_empty(form_username))
KnownUser == \E row \in users : row[1] = PostedUsername
PasswordMatches ==
    \E row \in users : row[1] = PostedUsername /\ check_password_hash(row[2], form_or_empty(form_password))

\* C27: a login POST sets session["user"] only when the username exists and
\* the password matches its stored hash; a POST for a username that is not
\* in the users table (the query itself having worked) leaves the session
\* unchanged and is answered as invalid credentials, not as the database
\* error (HTTP 500) of a failed query.
C27_LoginOutcomes ==
    (login_pc = "responded" /\ method = "POST") =>
        /\ (login_session # session_before) =>
              (login_session = Some(PostedUsername) /\ KnownUser /\ PasswordMatches)
        /\ (~db_failed /\ ~KnownUser /\ login_out.code # 400) =>
              /\ login_session = session_before
              /\ login_out.flash = "Invalid username or password."
              /\ login_out.code # 500

====
